---- MODULE Spec2Model ----
(***************************************************************************)
(* Model of the parser generators of axelts/EBNF: the BNF grammar model    *)
(* with its SLR(1) table construction (src/modules/11.js, classes Rule,    *)
(* Mark, State, Grammar), the table-driven stack parser (class Parser of   *)
(* the same file), and the EBNF grammar model with its recursive descent   *)
(* parser (src/modules/ebnf.js).                                           *)
(*                                                                         *)
(* Symbols are identified by their ordinal number `ord` as assigned by     *)
(* Grammar.check(): literals first ($eof is literal 0), then tokens        *)
(* ($error is the first token), then non-terminals ($accept is the first). *)
(* Rules and states are numbered from 0 as in the source; the sequences    *)
(* that hold them are indexed from 1.                                      *)
(***************************************************************************)
EXTENDS Integers, Sequences, FiniteSets, TLC

\* ------------------------------------------------------------------------
\* Bounds of the model.

\* most tuples handed to the parser during one run, over all parse() calls
MaxInput == 3

\* most symbols of a right-hand side and most rules, rule zero not counted,
\* of the BNF grammars which are only checked
MaxRhs == 2
MaxRules == 3

\* most alternatives of a rule and most rules of the EBNF grammars which
\* are only checked
MaxAlts == 2
MaxEBNF == 2

\* ------------------------------------------------------------------------
\* Generic helpers.

Max(a, b) == IF a > b THEN a ELSE b

\* Object keys which are integers are enumerated in ascending order
\* (for ... in, Object.entries): the ascending sequence of a set of numbers.
RECURSIVE keys(_)
keys(S) ==
  IF S = {} THEN <<>>
  ELSE LET m == CHOOSE x \in S : \A y \in S : x <= y
       IN <<m>> \o keys(S \ {m})

\* config.uniq + index: the names of the non-terminals which fromEBNF creates
uniqName(n) == <<"$-0", "$-1", "$-2", "$-3", "$-4", "$-5", "$-6", "$-7", "$-8", "$-9">>[n + 1]
UniqNames == {uniqName(n) : n \in 0 .. 9}

\* ------------------------------------------------------------------------
\* BNF grammar as left by the factory methods, before check().
\*   lits, tokens, nts : names in creation order
\*   levels            : precedence groups [assoc, terminals]
\*   rules             : [nt, symbols, prec] with prec the terminal which
\*                       defines the rule's precedence, or -1
\*   ebnf              : the rules of the EBNF grammar if created by
\*                       Grammar.fromEBNF, else empty

nLits(G)   == Len(G.lits)
nTokens(G) == Len(G.tokens)
nNts(G)    == Len(G.nts)

eof   == 0                            \* grammar.lit().ord
error(G)    == nLits(G)               \* grammar.token().ord
acceptNT(G) == nLits(G) + nTokens(G)  \* grammar.nt().ord

Terminals(G) == 0 .. (nLits(G) + nTokens(G) - 1)
NTs(G)       == acceptNT(G) .. (acceptNT(G) + nNts(G) - 1)
isNT(G, sym) == sym >= acceptNT(G)
isT(G, sym)  == sym < acceptNT(G)

ntName(G, nt) == G.nts[nt - acceptNT(G) + 1]

Rule(G, r)  == G.rules[r + 1]
nRules(G)   == Len(G.rules)
RuleIndexes(G) == 0 .. (nRules(G) - 1)

\* nt.rules: the rules of a non-terminal in creation order
ntRules(G, nt) ==
  LET idx == [i \in 1 .. nRules(G) |-> i - 1]
  IN SelectSeq(idx, LAMBDA r : Rule(G, r).nt = nt)

\* the precedence of a terminal as set by precedence(): level is the index
\* of the group in levels, assoc is "" without precedence
prec(G, t) ==
  IF \E l \in 1 .. Len(G.levels) : \E k \in 1 .. Len(G.levels[l].terminals) :
        G.levels[l].terminals[k] = t
  THEN LET l == CHOOSE l \in 1 .. Len(G.levels) :
                  \E k \in 1 .. Len(G.levels[l].terminals) :
                      G.levels[l].terminals[k] = t
       IN [assoc |-> G.levels[l].assoc, level |-> l - 1]
  ELSE [assoc |-> "", level |-> -1]

\* Grammar.rule(): the terminal of an explicit %prec, or else the last
\* terminal of the right-hand side which has a precedence, or -1
RECURSIVE lastPrec(_,_,_,_)
lastPrec(G, symbols, i, terminal) ==
  IF i > Len(symbols) THEN terminal
  ELSE lastPrec(G, symbols, i + 1,
         IF isT(G, symbols[i]) /\ prec(G, symbols[i]).assoc # ""
         THEN symbols[i] ELSE terminal)

rule(G, nt, symbols, terminal) ==
  [nt |-> nt, symbols |-> symbols,
   prec |-> IF terminal = -1 THEN lastPrec(G, symbols, 1, -1)
            ELSE IF prec(G, terminal).assoc = "" THEN -1 ELSE terminal]

\* rule.prec: precedence of a rule, taken from its terminal
rulePrec(G, r) == prec(G, Rule(G, r).prec)
hasPrec(G, r)  == Rule(G, r).prec # -1

\* ------------------------------------------------------------------------
\* Grammar.check(), analysis part: reached, finite, empty, first, follow.

\* setReached: marks a rule and its non-terminal and descends into the
\* rules of the non-terminals of its right-hand side; `todo` is the list
\* of rules still to visit, `reached` the set of rules visited
RECURSIVE setReached(_,_,_)
setReached(G, todo, reached) ==
  IF todo = <<>> THEN reached
  ELSE LET r == Head(todo) IN
    IF r \in reached THEN setReached(G, Tail(todo), reached)
    ELSE LET syms == Rule(G, r).symbols
             RECURSIVE sub(_)
             sub(i) == IF i > Len(syms) THEN <<>>
                       ELSE (IF isNT(G, syms[i]) THEN ntRules(G, syms[i]) ELSE <<>>)
                            \o sub(i + 1)
         IN setReached(G, sub(1) \o Tail(todo), reached \cup {r})

\* the test of the finite loop for one rule
ruleIsFinite(G, ntFinite, r) ==
  \E i \in 1 .. Len(Rule(G, r).symbols) :
     isT(G, Rule(G, r).symbols[i]) \/ Rule(G, r).symbols[i] \in ntFinite

\* one pass of the finite loop over rules r, r+1, ...
RECURSIVE finitePass(_,_,_)
finitePass(G, S, r) ==
  IF r >= nRules(G) THEN S
  ELSE IF Rule(G, r).nt \notin S.ntFinite /\ ruleIsFinite(G, S.ntFinite, r)
       THEN finitePass(G, [ruleFinite |-> S.ruleFinite \cup {r},
                           ntFinite |-> S.ntFinite \cup {Rule(G, r).nt},
                           changed |-> TRUE], r + 1)
       ELSE finitePass(G, S, r + 1)

\* do ... while (changed)
RECURSIVE finiteLoop(_,_)
finiteLoop(G, S) ==
  LET T == finitePass(G, [S EXCEPT !.changed = FALSE], 0)
  IN IF T.changed THEN finiteLoop(G, T) ELSE T

\* nt.empty as set by Grammar.rule(): some rule other than rule zero has an
\* empty right-hand side
ntEmpty0(G) ==
  {Rule(G, r).nt : r \in {q \in RuleIndexes(G) : q > 0 /\ Rule(G, q).symbols = <<>>}}

\* sym.first
symFirst(G, ntFirst, sym) == IF isT(G, sym) THEN {sym} ELSE ntFirst[sym]

\* symbols.every(...) of the first loop: the number of symbols visited,
\* i.e. up to and including the first one which is not an empty non-terminal
RECURSIVE visited(_,_,_,_)
visited(G, ntEmpty, syms, i) ==
  IF i > Len(syms) THEN Len(syms)
  ELSE IF isNT(G, syms[i]) /\ syms[i] \in ntEmpty
       THEN visited(G, ntEmpty, syms, i + 1)
       ELSE i

\* one pass of the first loop over rules r, r+1, ...;
\* `rule.empty = true` assigns to a property which only has a getter, in
\* strict code this raises a TypeError: threw
RECURSIVE firstPass(_,_,_)
firstPass(G, S, r) ==
  IF r >= nRules(G) \/ S.threw THEN S
  ELSE LET syms == Rule(G, r).symbols
           nt   == Rule(G, r).nt
       IN IF Len(syms) = 0 THEN firstPass(G, S, r + 1)
          ELSE
            LET n   == visited(G, S.ntEmpty, syms, 1)
                all == \A i \in 1 .. Len(syms) :
                          isNT(G, syms[i]) /\ syms[i] \in S.ntEmpty
                rf  == S.ruleFirst[r] \cup
                       UNION {symFirst(G, S.ntFirst, syms[i]) : i \in 1 .. n}
                nf  == S.ntFirst[nt] \cup rf
            IN IF all
               THEN [S EXCEPT !.ruleFirst[r] = rf, !.threw = TRUE]
               ELSE firstPass(G,
                      [S EXCEPT !.ruleFirst[r] = rf, !.ntFirst[nt] = nf,
                                !.changed = S.changed \/ rf # S.ruleFirst[r]
                                            \/ nf # S.ntFirst[nt]],
                      r + 1)

RECURSIVE firstLoop(_,_)
firstLoop(G, S) ==
  LET T == firstPass(G, [S EXCEPT !.changed = FALSE], 0)
  IN IF T.changed /\ ~T.threw THEN firstLoop(G, T) ELSE T

\* symbols.reduceRight(...) of the follow loop for one rule, at symbol i
\* with `follow` the set passed on from the right
RECURSIVE followRule(_,_,_,_,_,_)
followRule(G, A, S, syms, i, follow) ==
  IF i < 1 THEN S
  ELSE LET last == syms[i] IN
    IF isNT(G, last)
    THEN LET nf == S.ntFollow[last] \cup follow
             T  == [S EXCEPT !.ntFollow[last] = nf,
                             !.changed = S.changed \/ nf # S.ntFollow[last]]
         IN followRule(G, A, T, syms, i - 1,
              IF last \in A.ntEmpty THEN A.ntFirst[last] \cup follow
              ELSE A.ntFirst[last])
    ELSE followRule(G, A, S, syms, i - 1, {last})

RECURSIVE followPass(_,_,_,_)
followPass(G, A, S, r) ==
  IF r >= nRules(G) THEN S
  ELSE LET syms == Rule(G, r).symbols
       IN followPass(G, A,
            IF Len(syms) = 0 THEN S
            ELSE followRule(G, A, S, syms, Len(syms), S.ntFollow[Rule(G, r).nt]),
            r + 1)

\* variant of followLoop: one pass over the rules
followLoop_once(G, A, S) == followPass(G, A, [S EXCEPT !.changed = FALSE], 0)

RECURSIVE followLoop(_,_,_)
followLoop(G, A, S) ==
  LET T == followPass(G, A, [S EXCEPT !.changed = FALSE], 0)
  IN IF T.changed THEN followLoop(G, A, T) ELSE T

\* the analysis of check() up to the follow sets; ruleReduced is filled in
\* by State.advance()
analyse(G) ==
  LET reached == setReached(G, <<0>>, {})
      fin == finiteLoop(G, [ruleFinite |-> {}, ntFinite |-> {}, changed |-> FALSE])
      fst == firstLoop(G, [ruleFirst |-> [r \in RuleIndexes(G) |-> {}],
                           ntFirst |-> [n \in NTs(G) |-> {}],
                           ntEmpty |-> ntEmpty0(G),
                           changed |-> FALSE, threw |-> FALSE])
      A1  == [ntEmpty |-> fst.ntEmpty, ntFirst |-> fst.ntFirst]
      fol == followLoop(G, A1, [ntFollow |-> [n \in NTs(G) |-> {}], changed |-> FALSE])
  IN [ruleReached |-> reached,
      ntReached   |-> {Rule(G, r).nt : r \in reached},
      ruleFinite  |-> fin.ruleFinite,
      ntFinite    |-> fin.ntFinite,
      ntEmpty     |-> fst.ntEmpty,
      ruleFirst   |-> fst.ruleFirst,
      ntFirst     |-> fst.ntFirst,
      ntFollow    |-> IF fst.threw THEN [n \in NTs(G) |-> {}] ELSE fol.ntFollow,
      threw       |-> fst.threw]

\* the number of errors check() reports before the states are created:
\* undefined, not reached, and not finite non-terminals
analysisErrors(G, A) ==
  Cardinality({n \in NTs(G) : ntRules(G, n) = <<>>})
  + Cardinality({n \in NTs(G) : n \notin A.ntReached})
  + Cardinality({n \in NTs(G) : n \notin A.ntFinite})

\* ------------------------------------------------------------------------
\* Messages, marks and states.

Message(verb, info) == [verb |-> verb, info |-> info]
null == Message("null", -1)             \* a symbol mapped to null
accept == Message("accept", -1)         \* Grammar.accept
reduce(r) == Message("reduce", r)       \* Grammar.reduce
\* variant: every symbol is shifted, also a non-terminal
shift_or_goto_shift(G, symbol, s) == Message("shift", s)

shift_or_goto(G, symbol, s) ==          \* Grammar.shift_or_goto
  Message(IF isT(G, symbol) THEN "shift" ELSE "goto", s)

mark(r, position) == [rule |-> r, position |-> position]   \* Grammar.mark
complete(G, m) == m.position = Len(Rule(G, m.rule).symbols)
nextSymbol(G, m) == Rule(G, m.rule).symbols[m.position + 1]
markAdvance(m) == mark(m.rule, m.position + 1)             \* Mark.advance

\* set or add an entry of a map, delete an entry
put(f, k, v) == [x \in DOMAIN f \cup {k} |-> IF x = k THEN v ELSE f[x]]
delete(f, k) == [x \in DOMAIN f \ {k} |-> f[x]]

\* Grammar.state(): closure over the core and the marks added, and the
\* map of every possible next symbol to null
RECURSIVE closure(_,_,_,_)
closure(G, marks, c, messages) ==
  IF c > Len(marks) THEN [marks |-> marks, messages |-> messages]
  ELSE IF complete(G, marks[c]) THEN closure(G, marks, c + 1, messages)
  ELSE LET s == nextSymbol(G, marks[c])
           rs == ntRules(G, s)
           more == IF isNT(G, s) /\ s \notin DOMAIN messages
                   THEN [i \in 1 .. Len(rs) |-> mark(rs[i], 0)]
                   ELSE <<>>
       IN closure(G, marks \o more, c + 1, put(messages, s, null))

state(G, core) ==
  LET c == closure(G, core, 1, <<>>)
  IN [marks |-> c.marks, core |-> Len(core), messages |-> c.messages, errors |-> 0]

\* variant of equals: only a core with a mark at the start of a rule or
\* behind its first symbol is found again
equals_early(S, core) ==
  /\ S.core = Len(core)
  /\ \A i \in 1 .. S.core : \E j \in 1 .. Len(core) : S.marks[i] = core[j]
  /\ \E j \in 1 .. Len(core) : core[j].position <= 1

\* variant of equals: cores of the same size are equal
equals_size(S, core) == S.core = Len(core)

\* State.equals(): same core size and every core mark is in the other core
equals(S, core) ==
  /\ S.core = Len(core)
  /\ \A i \in 1 .. S.core : \E j \in 1 .. Len(core) : S.marks[i] = core[j]

\* variant of reduceMark: equal precedence levels delete the entry of the
\* terminal whatever the associativity
RECURSIVE reduceMark_delete(_,_,_,_)
reduceMark_delete(G, acc, r, ts) ==
  IF ts = <<>> THEN acc
  ELSE LET t == Head(ts)
           doReduce == [acc EXCEPT !.reduced = acc.reduced \cup {r},
                                   !.messages = put(acc.messages, t, reduce(r))]
           new ==
             IF t \notin DOMAIN acc.messages THEN doReduce
             ELSE IF acc.messages[t] = null
             THEN IF hasPrec(G, r) /\ prec(G, t).assoc # ""
                  THEN IF rulePrec(G, r).level > prec(G, t).level THEN doReduce
                       ELSE IF rulePrec(G, r).level < prec(G, t).level THEN acc
                       ELSE [acc EXCEPT !.reduced = acc.reduced \cup {r},
                                        !.messages = delete(acc.messages, t)]
                  ELSE [acc EXCEPT !.sr = acc.sr + 1, !.errors = acc.errors + 1]
             ELSE LET r2 == acc.messages[t].info
                  IN [acc EXCEPT !.rr = acc.rr + 1, !.errors = acc.errors + 1,
                                 !.messages = IF r < r2
                                              THEN put(acc.messages, t, reduce(r))
                                              ELSE acc.messages]
       IN reduceMark_delete(G, new, r, Tail(ts))

\* variant of reduceMark: in a reduce/reduce conflict the entry stays
RECURSIVE reduceMark_first(_,_,_,_)
reduceMark_first(G, acc, r, ts) ==
  IF ts = <<>> THEN acc
  ELSE LET t == Head(ts)
           doReduce == [acc EXCEPT !.reduced = acc.reduced \cup {r},
                                   !.messages = put(acc.messages, t, reduce(r))]
           new ==
             IF t \notin DOMAIN acc.messages THEN doReduce
             ELSE IF acc.messages[t] = null
             THEN IF hasPrec(G, r) /\ prec(G, t).assoc # ""
                  THEN IF rulePrec(G, r).level > prec(G, t).level THEN doReduce
                       ELSE IF rulePrec(G, r).level < prec(G, t).level THEN acc
                       ELSE IF rulePrec(G, r).assoc = "%left" THEN doReduce
                       ELSE IF rulePrec(G, r).assoc = "%right" THEN acc
                       ELSE [acc EXCEPT !.reduced = acc.reduced \cup {r},
                                        !.messages = delete(acc.messages, t)]
                  ELSE [acc EXCEPT !.sr = acc.sr + 1, !.errors = acc.errors + 1]
             ELSE [acc EXCEPT !.rr = acc.rr + 1, !.errors = acc.errors + 1]
       IN reduceMark_first(G, new, r, Tail(ts))

\* variant of reduceMark: equal precedence levels leave the shift whatever
\* the associativity
RECURSIVE reduceMark_shift(_,_,_,_)
reduceMark_shift(G, acc, r, ts) ==
  IF ts = <<>> THEN acc
  ELSE LET t == Head(ts)
           doReduce == [acc EXCEPT !.reduced = acc.reduced \cup {r},
                                   !.messages = put(acc.messages, t, reduce(r))]
           new ==
             IF t \notin DOMAIN acc.messages THEN doReduce
             ELSE IF acc.messages[t] = null
             THEN IF hasPrec(G, r) /\ prec(G, t).assoc # ""
                  THEN IF rulePrec(G, r).level > prec(G, t).level THEN doReduce
                       ELSE acc
                  ELSE [acc EXCEPT !.sr = acc.sr + 1, !.errors = acc.errors + 1]
             ELSE LET r2 == acc.messages[t].info
                  IN [acc EXCEPT !.rr = acc.rr + 1, !.errors = acc.errors + 1,
                                 !.messages = IF r < r2
                                              THEN put(acc.messages, t, reduce(r))
                                              ELSE acc.messages]
       IN reduceMark_shift(G, new, r, Tail(ts))

\* State.advance(), first part, for one complete mark of rule r and the
\* terminals ts (ascending) which can follow its non-terminal.
\* acc: messages of the state, reduced rules, sr, rr, errors of the state
RECURSIVE reduceMark(_,_,_,_)
reduceMark(G, acc, r, ts) ==
  IF ts = <<>> THEN acc
  ELSE LET t == Head(ts)
           doReduce == [acc EXCEPT !.reduced = acc.reduced \cup {r},
                                   !.messages = put(acc.messages, t, reduce(r))]
           new ==
             IF t \notin DOMAIN acc.messages THEN doReduce
             ELSE IF acc.messages[t] = null
             THEN IF hasPrec(G, r) /\ prec(G, t).assoc # ""
                  THEN IF rulePrec(G, r).level > prec(G, t).level THEN doReduce
                       ELSE IF rulePrec(G, r).level < prec(G, t).level THEN acc
                       ELSE IF rulePrec(G, r).assoc = "%left" THEN doReduce
                       ELSE IF rulePrec(G, r).assoc = "%right" THEN acc
                       ELSE [acc EXCEPT !.reduced = acc.reduced \cup {r},
                                        !.messages = delete(acc.messages, t)]
                  ELSE [acc EXCEPT !.sr = acc.sr + 1, !.errors = acc.errors + 1]
             ELSE LET r2 == acc.messages[t].info
                  IN [acc EXCEPT !.rr = acc.rr + 1, !.errors = acc.errors + 1,
                                 !.messages = IF r < r2
                                              THEN put(acc.messages, t, reduce(r))
                                              ELSE acc.messages]
       IN reduceMark(G, new, r, Tail(ts))

\* this.marks.forEach(...) of the first part
RECURSIVE reduceMarks(_,_,_,_,_)
reduceMarks(G, A, acc, marks, i) ==
  IF i > Len(marks) THEN acc
  ELSE reduceMarks(G, A,
         IF complete(G, marks[i])
         THEN reduceMark(G, acc, marks[i].rule,
                         keys(A.ntFollow[Rule(G, marks[i].rule).nt]))
         ELSE acc,
         marks, i + 1)

\* the core reached over symbol a: the marks before a, advanced
nextCore(G, marks, a) ==
  LET sel == SelectSeq(marks, LAMBDA m : ~complete(G, m) /\ nextSymbol(G, m) = a)
  IN [i \in 1 .. Len(sel) |-> markAdvance(sel[i])]

\* State.advance(), second part, over the symbols as (ascending) which
\* still map to null. acc: messages, reduced, states
RECURSIVE shiftSymbols(_,_,_,_)
shiftSymbols(G, marks, acc, as) ==
  IF as = <<>> THEN acc
  ELSE LET a == Head(as)
           next == nextCore(G, marks, a)
           found == {s \in 1 .. Len(acc.states) : equals(acc.states[s], next)}
           new ==
             IF acc.messages[a] # null THEN acc
             ELSE IF a = eof
             THEN [acc EXCEPT !.messages = put(acc.messages, a, accept),
                              !.reduced = acc.reduced \cup {0}]
             ELSE IF found # {}
             THEN [acc EXCEPT !.messages = put(acc.messages, a,
                      shift_or_goto(G, a, (CHOOSE s \in found : \A q \in found : s <= q) - 1))]
             ELSE [acc EXCEPT !.messages = put(acc.messages, a,
                      shift_or_goto(G, a, Len(acc.states))),
                              !.states = Append(acc.states, state(G, next))]
       IN shiftSymbols(G, marks, new, Tail(as))

\* State.advance(stateNumber) on the grammar's tables
\* T: [states, reduced, sr, rr]
advance(G, A, T, stateNumber) ==
  LET S  == T.states[stateNumber + 1]
      p1 == reduceMarks(G, A,
              [messages |-> S.messages, reduced |-> T.reduced,
               sr |-> T.sr, rr |-> T.rr, errors |-> S.errors],
              S.marks, 1)
      p2 == shiftSymbols(G, S.marks,
              [messages |-> p1.messages, reduced |-> p1.reduced, states |-> T.states],
              keys(DOMAIN p1.messages))
  IN [states  |-> [p2.states EXCEPT ![stateNumber + 1] =
                     [S EXCEPT !.messages = p2.messages, !.errors = p1.errors]],
      reduced |-> p2.reduced,
      sr      |-> p1.sr,
      rr      |-> p1.rr]

\* ------------------------------------------------------------------------
\* EBNF grammar (src/modules/ebnf.js). A node of the tree is a tagged
\* tuple: a literal, a token or a non-terminal with its name, or [ ] or
\* { } with its alternatives; an alternative (Seq) is a sequence of nodes.
\* An EBNF grammar is a record with
\*   lits, tokens : names of the used literals and tokens in creation order
\*   levels       : precedence groups [assoc, terminals], terminals by name
\*   rules        : [nt, seqs]: name of the non-terminal and alternatives
\*   config       : noargs

Lit(name)   == <<"lit", name>>
Token(name) == <<"token", name>>
NT(name)    == <<"nt", name>>
Opt(seqs)   == <<"opt", seqs>>
Some(seqs)  == <<"some", seqs>>

isOpt(node)  == node[1] = "opt"
isNode(node) == node[1] = "nt"
isTerminal(node) == node[1] \in {"lit", "token"}

\* grammar.ebnf of a grammar which Grammar.fromEBNF() did not create
noEBNF == [lits |-> <<>>, tokens |-> <<>>, levels |-> <<>>, rules |-> <<>>,
           config |-> [noargs |-> FALSE]]

\* created by Grammar.fromEBNF()
isEBNF(G) == G.ebnf.rules # <<>>

\* the non-terminals which nodes refer to
RECURSIVE namesNode(_), namesSeq(_), namesAlt(_)
namesNode(node) ==
  IF isTerminal(node) THEN {} ELSE IF isNode(node) THEN {node[2]} ELSE namesAlt(node[2])
namesSeq(nodes) == UNION {namesNode(nodes[i]) : i \in 1 .. Len(nodes)}
namesAlt(seqs)  == UNION {namesSeq(seqs[i]) : i \in 1 .. Len(seqs)}

\* the names for which the grammar has a rule, and grammar.nts: the names
\* for which grammar.nt() was called, for a rule or within one
defined(E) == {E.rules[i].nt : i \in 1 .. Len(E.rules)}
ebnfNts(E) == defined(E) \cup UNION {namesAlt(E.rules[i].seqs) : i \in 1 .. Len(E.rules)}

\* nt.rule: the index of the rule which Grammar.rule() has created last for
\* the name, 0 for null; and the rule itself
ruleIndex(E, name) ==
  IF name \in defined(E)
  THEN CHOOSE i \in 1 .. Len(E.rules) :
         E.rules[i].nt = name /\ \A j \in i + 1 .. Len(E.rules) : E.rules[j].nt # name
  ELSE 0
ebnfRule(E, name) == E.rules[ruleIndex(E, name)]

\* Rule.shallow() finds left recursion: the rule is entered again before
\* the first node which is not optional is done; active: the rules entered
RECURSIVE recursedNode(_,_,_), recursedSeq(_,_,_), recursedAlt(_,_,_)
recursedNode(E, node, active) ==
  IF isTerminal(node) THEN FALSE
  ELSE IF isNode(node)
  THEN ruleIndex(E, node[2]) \in active
       \/ (ruleIndex(E, node[2]) # 0
           /\ recursedAlt(E, ebnfRule(E, node[2]).seqs, active \cup {ruleIndex(E, node[2])}))
  ELSE recursedAlt(E, node[2], active)
recursedSeq(E, nodes, active) ==
  nodes # <<>> /\ (recursedNode(E, Head(nodes), active)
                   \/ (isOpt(Head(nodes)) /\ recursedSeq(E, Tail(nodes), active)))
recursedAlt(E, seqs, active) ==
  \E i \in 1 .. Len(seqs) : recursedSeq(E, seqs[i], active)

\* variant of leftRecursive: a rule which has its own name in front
leftRecursive_direct(E) ==
  \E i \in 1 .. Len(E.rules) :
     recursedAlt([E EXCEPT !.rules = <<E.rules[i]>>], E.rules[i].seqs, {1})

\* some rule has rule.recursed
leftRecursive(E) ==
  \E i \in 1 .. Len(E.rules) : recursedAlt(E, E.rules[i].seqs, {i})

\* NT.shallow() is this.rule.shallow(): a TypeError if shallow() comes to a
\* non-terminal without a rule
RECURSIVE nullNode(_,_,_), nullSeq(_,_,_), nullAlt(_,_,_)
nullNode(E, node, active) ==
  IF isTerminal(node) THEN FALSE
  ELSE IF isNode(node)
  THEN ruleIndex(E, node[2]) = 0
       \/ (ruleIndex(E, node[2]) \notin active
           /\ nullAlt(E, ebnfRule(E, node[2]).seqs, active \cup {ruleIndex(E, node[2])}))
  ELSE nullAlt(E, node[2], active)
nullSeq(E, nodes, active) ==
  nodes # <<>> /\ (nullNode(E, Head(nodes), active)
                   \/ (isOpt(Head(nodes)) /\ nullSeq(E, Tail(nodes), active)))
nullAlt(E, seqs, active) ==
  \E i \in 1 .. Len(seqs) : nullSeq(E, seqs[i], active)

\* shallow(): the set which it returns, for a rule the set which it sets as
\* rule.expect; a rule which is entered again returns an empty set
RECURSIVE shallowNode(_,_,_), shallowSeq(_,_,_), shallowAlt(_,_,_)
shallowNode(E, node, active) ==
  IF isTerminal(node) THEN {node[2]}
  ELSE IF isNode(node)
  THEN IF ruleIndex(E, node[2]) \in active THEN {}
       ELSE shallowAlt(E, ebnfRule(E, node[2]).seqs, active \cup {ruleIndex(E, node[2])})
  ELSE shallowAlt(E, node[2], active)
shallowSeq(E, nodes, active) ==
  IF nodes = <<>> THEN {}
  ELSE IF isOpt(Head(nodes))
  THEN shallowNode(E, Head(nodes), active) \cup shallowSeq(E, Tail(nodes), active)
  ELSE shallowNode(E, Head(nodes), active)
shallowAlt(E, seqs, active) == UNION {shallowSeq(E, seqs[i], active) : i \in 1 .. Len(seqs)}

\* deep(): node.expect, the terminals which a node expects to see as
\* lookahead; in a sequence an optional node adds what is on its right
RECURSIVE deepNode(_,_), deepSeq(_,_), deepAlt(_,_)
deepNode(E, node) ==
  IF isTerminal(node) THEN {node[2]}
  ELSE IF isNode(node) THEN shallowNode(E, node, {})
  ELSE deepAlt(E, node[2])
deepSeq(E, nodes) ==
  IF nodes = <<>> THEN {}
  ELSE IF isOpt(Head(nodes)) THEN deepNode(E, Head(nodes)) \cup deepSeq(E, Tail(nodes))
  ELSE deepNode(E, Head(nodes))
deepAlt(E, seqs) == UNION {deepSeq(E, seqs[i]) : i \in 1 .. Len(seqs)}

\* Rule.deep(): the rules with rule.reached once rules[0].deep() is done,
\* todo are the rules still to enter
RECURSIVE ebnfReached(_,_,_)
ebnfReached(E, todo, reached) ==
  IF todo = {} THEN reached
  ELSE LET i == CHOOSE n \in todo : TRUE
       IN ebnfReached(E,
            (todo \cup {ruleIndex(E, name) : name \in namesAlt(E.rules[i].seqs)})
              \ (reached \cup {i, 0}),
            reached \cup {i})

\* Grammar.expect(): the error which it returns, "" for none, or
\* "TypeError" if it ends with that exception
expectError(E) ==
  IF E.levels # <<>> THEN "no precedences for recursive descent"
  ELSE IF E.rules = <<>> THEN "no rules"
  ELSE IF Len(E.rules) > Cardinality(ebnfNts(E)) THEN "duplicate rule definition(s)"
  ELSE IF Len(E.rules) < Cardinality(ebnfNts(E)) THEN "undefined"
  ELSE IF \E i \in 1 .. Len(E.rules) : nullAlt(E, E.rules[i].seqs, {i}) THEN "TypeError"
  ELSE IF leftRecursive(E) THEN "left recursive"
  ELSE IF \E i \in ebnfReached(E, {1}, {}) :
             \E name \in namesAlt(E.rules[i].seqs) : ruleIndex(E, name) = 0
  THEN "TypeError"
  ELSE IF ebnfReached(E, {1}, {}) # 1 .. Len(E.rules) THEN "not reached"
  ELSE ""

\* follow(increment): the setters push what can follow a node from right to
\* left through each sequence; a rule is entered again only if the
\* increment adds to its set. F: the rules entered and the sets so far.
RECURSIVE ruleFollow(_,_,_,_), nodeFollow(_,_,_,_), seqFollow(_,_,_,_,_), altFollow(_,_,_,_,_)
ruleFollow(E, F, name, increment) ==
  altFollow(E, [seen |-> F.seen \cup {name},
                fol  |-> [F.fol EXCEPT ![name] = @ \cup increment]],
            ebnfRule(E, name).seqs, 1, increment)
altFollow(E, F, seqs, i, increment) ==
  IF i > Len(seqs) THEN F
  ELSE altFollow(E, seqFollow(E, F, seqs[i], Len(seqs[i]), increment), seqs, i + 1, increment)
seqFollow(E, F, nodes, k, right) ==
  IF k = 0 THEN F
  ELSE seqFollow(E, nodeFollow(E, F, nodes[k], right), nodes, k - 1,
                 deepNode(E, nodes[k]) \cup (IF isOpt(nodes[k]) THEN right ELSE {}))
nodeFollow(E, F, node, increment) ==
  IF isTerminal(node) THEN F
  ELSE IF isNode(node)
  THEN IF node[2] \notin F.seen \/ ~(increment \subseteq F.fol[node[2]])
       THEN ruleFollow(E, F, node[2], increment) ELSE F
  ELSE IF isOpt(node) THEN altFollow(E, F, node[2], 1, increment)
  ELSE altFollow(E, F, node[2], 1, increment \cup deepAlt(E, node[2]))

\* rule.follow() for each rule once check() has called rules[0].follow(new Set())
ebnfFollow(E) ==
  ruleFollow(E, [seen |-> {}, fol |-> [name \in defined(E) |-> {}]],
             E.rules[1].nt, {}).fol

\* The setters node by node. A node is known by its path: the name of its
\* rule, then the index of a sequence and the index of a node in it, in
\* turn. F.at has <<path, t>> if t is in the follow set of the node,
\* F.made has the paths of the nodes with a set, F.entered counts the calls
\* of follow(increment) for each rule.
noFollow(E) == [at |-> {}, made |-> {}, entered |-> [name \in defined(E) |-> 0]]

\* node.follow() of the node at a path
followAt(F, path) == {p[2] : p \in {q \in F.at : q[1] = path}}

\* Node.follow(increment)
setNode(F, path, increment) ==
  [F EXCEPT !.at = @ \cup {<<path, t>> : t \in increment}, !.made = @ \cup {path}]

RECURSIVE setRule(_,_,_,_), setAlt(_,_,_,_,_), eachSeq(_,_,_,_,_,_), setSeq(_,_,_,_,_),
          eachNode(_,_,_,_,_,_), setChild(_,_,_,_,_), setChild_first(_,_,_,_,_)

\* rule.follow(increment)
setRule(E, F, name, increment) ==
  setAlt(E, [F EXCEPT !.entered[name] = @ + 1], <<name>>, ebnfRule(E, name).seqs, increment)

\* Alt.follow(increment), for a rule and for [ ]
setAlt(E, F, path, seqs, increment) ==
  eachSeq(E, setNode(F, path, increment), path, seqs, 1, increment)

\* this.seqs.forEach(seq => seq.follow(...)) from sequence i on
eachSeq(E, F, path, seqs, i, increment) ==
  IF i > Len(seqs) THEN F
  ELSE eachSeq(E, setSeq(E, F, Append(path, i), seqs[i], increment), path, seqs, i + 1, increment)

\* Seq.follow(increment)
setSeq(E, F, path, nodes, increment) ==
  eachNode(E, setNode(F, path, increment), path, nodes, Len(nodes), increment)

\* this.nodes.reduceRight(...) from node k on to the left
eachNode(E, F, path, nodes, k, follow) ==
  IF k = 0 THEN F
  ELSE eachNode(E, setChild(E, F, Append(path, k), nodes[k], follow), path, nodes, k - 1,
                deepNode(E, nodes[k]) \cup (IF isOpt(nodes[k]) THEN follow ELSE {}))

\* variant of setChild: a non-terminal sets its rule once
setChild_first(E, F, path, node, increment) ==
  IF isTerminal(node) THEN setNode(F, path, increment)
  ELSE IF isNode(node)
  THEN IF <<node[2]>> \notin F.made THEN setRule(E, F, node[2], increment) ELSE F
  ELSE IF isOpt(node) THEN setAlt(E, F, path, node[2], increment)
  ELSE eachSeq(E, setNode(F, path, increment), path, node[2], 1,
               increment \cup deepAlt(E, node[2]))

\* node.follow(increment) for a node of a sequence: a terminal, a
\* non-terminal (NT.follow), [ ] or { } (Some.follow)
setChild(E, F, path, node, increment) ==
  IF isTerminal(node) THEN setNode(F, path, increment)
  ELSE IF isNode(node)
  THEN IF <<node[2]>> \notin F.made \/ ~(increment \subseteq followAt(F, <<node[2]>>))
       THEN setRule(E, F, node[2], increment) ELSE F
  ELSE IF isOpt(node) THEN setAlt(E, F, path, node[2], increment)
  ELSE eachSeq(E, setNode(F, path, increment), path, node[2], 1,
               increment \cup deepAlt(E, node[2]))

\* this.rules[0].follow(new Set()) of check()
setFollow(E) == setRule(E, noFollow(E), E.rules[1].nt, {})

\* the sum of seq.expect.length over the alternatives
RECURSIVE expectLengths(_,_)
expectLengths(E, seqs) ==
  IF seqs = <<>> THEN 0
  ELSE Cardinality(deepSeq(E, Head(seqs))) + expectLengths(E, Tail(seqs))

\* node.check(): an error is reported if the lookahead can select more than
\* one alternative or need not select an optional or repeatable part;
\* follow is the set which the setters have left in the node
RECURSIVE ambiguousNode(_,_,_), ambiguousSeq(_,_,_,_), ambiguousAlt(_,_,_)
ambiguousNode(E, node, fol) ==
  IF isTerminal(node) \/ isNode(node) THEN FALSE
  ELSE \/ deepAlt(E, node[2]) \cap fol # {}
       \/ ambiguousAlt(E, node[2],
                       IF isOpt(node) THEN fol ELSE fol \cup deepAlt(E, node[2]))
ambiguousSeq(E, nodes, k, fol) ==
  k > 0 /\ \/ ambiguousNode(E, nodes[k], fol)
           \/ ambiguousSeq(E, nodes, k - 1,
                 deepNode(E, nodes[k]) \cup (IF isOpt(nodes[k]) THEN fol ELSE {}))
ambiguousAlt(E, seqs, fol) ==
  \/ Cardinality(deepAlt(E, seqs)) # expectLengths(E, seqs)
  \/ \E i \in 1 .. Len(seqs) : ambiguousSeq(E, seqs[i], Len(seqs[i]), fol)

\* EBNF Grammar.check(): the error, if any
checkError(E) ==
  IF expectError(E) # "" THEN expectError(E)
  ELSE IF \E name \in defined(E) : ambiguousAlt(E, ebnfRule(E, name).seqs, ebnfFollow(E)[name])
  THEN "found ambiguities"
  ELSE ""

\* the sets which expect() and check() leave in the nodes with
\* alternatives: for a rule, [ ] or { } the expect set of each alternative,
\* the expect set of the node and its follow set
RECURSIVE treeNode(_,_,_), treeSeq(_,_,_,_), treeAlt(_,_,_,_)
treeNode(E, node, fol) ==
  IF isTerminal(node) \/ isNode(node) THEN {} ELSE treeAlt(E, node[1], node[2], fol)
treeSeq(E, nodes, k, fol) ==
  IF k = 0 THEN {}
  ELSE treeNode(E, nodes[k], fol)
       \cup treeSeq(E, nodes, k - 1,
                    deepNode(E, nodes[k]) \cup (IF isOpt(nodes[k]) THEN fol ELSE {}))
treeAlt(E, kind, seqs, fol) ==
  {[kind |-> kind, alts |-> [i \in 1 .. Len(seqs) |-> deepSeq(E, seqs[i])],
    expect |-> deepAlt(E, seqs), follow |-> fol]}
  \cup UNION {treeSeq(E, seqs[i], Len(seqs[i]),
                      IF kind = "some" THEN fol \cup deepAlt(E, seqs) ELSE fol) :
               i \in 1 .. Len(seqs)}

tree(E) ==
  UNION {treeAlt(E, "rule", E.rules[i].seqs, ebnfFollow(E)[E.rules[i].nt]) :
           i \in 1 .. Len(E.rules)}

\* what is known of an EBNF grammar's sets: which of expect() and check()
\* was called last, what it returned, if it threw, if sets were computed
\* ("none", "started": shallow() was entered, "all"), rule.expect by index
\* of the rule, the nodes with their sets, if grammar.errors is not zero,
\* and if check() was called again
noSets ==
  [called |-> "", returned |-> "", threw |-> FALSE, sets |-> "none",
   expect |-> <<>>, nodes |-> {}, erred |-> FALSE, again |-> FALSE]

\* EBNF Grammar.expect()
expectSets(E) ==
  LET e == expectError(E)
  IN [called   |-> "expect",
      returned |-> IF e = "TypeError" THEN "" ELSE e,
      threw    |-> e = "TypeError",
      sets     |-> IF e = "" THEN "all"
                   ELSE IF e \in {"TypeError", "left recursive", "not reached"}
                   THEN "started" ELSE "none",
      expect   |-> IF e = "" THEN [i \in 1 .. Len(E.rules) |-> shallowAlt(E, E.rules[i].seqs, {i})]
                   ELSE <<>>,
      nodes    |-> {},
      erred    |-> e \notin {"", "TypeError"},
      again    |-> FALSE]

\* EBNF Grammar.check(), which calls expect() if rules[0].expect is empty
checkSets(E) ==
  LET e == checkError(E)
  IN [expectSets(E) EXCEPT
        !.called   = "check",
        !.returned = IF e = "TypeError" THEN "" ELSE e,
        !.nodes    = IF expectError(E) = "" THEN tree(E) ELSE {},
        !.erred    = e \notin {"", "TypeError"}]

\* EBNF Grammar.check() once more, for a grammar with all sets: expect and
\* follow are there, and with errors nothing is checked and nothing returned
checkAgain(E, sets0) ==
  [sets0 EXCEPT !.again = TRUE,
                !.returned = IF sets0.erred THEN "" ELSE checkError(E)]

\* ------------------------------------------------------------------------
\* Values collected by the parsers: a string, null, a list of values, or
\* the object which an action method creates from its arguments.

Str(v)    == <<"str", v>>
Null      == <<"null">>
List(vs)  == <<"list", vs>>
Obj(name, vs) == <<"obj", name, vs>>
isList(v) == v[1] = "list"

\* ------------------------------------------------------------------------
\* Input tuples: t is the ordinal number of the terminal, -1 for an illegal
\* character (t === null); t = -2 stands for null itself, as array element
\* (end of input) and as value of parser.current.

Tuple(t, value) == [t |-> t, value |-> value]
nullTuple  == Tuple(-2, "")
eofTuple   == Tuple(eof, "")             \* grammar.tuple(0, grammar.lit())
illegal    == Tuple(-1, "?")
errorTuple(G) == Tuple(error(G), "")     \* grammar.tuple(lineno, error)

terminalName(G, t) ==
  IF t < nLits(G) THEN G.lits[t + 1] ELSE G.tokens[t - nLits(G) + 1]

\* what a caller can put into an input array: a tuple for each terminal of
\* the grammar other than $eof and $error, an illegal character, and null
InputTuples(G) ==
  {Tuple(t, terminalName(G, t)) : t \in Terminals(G) \ {eof, error(G)}}
    \cup {illegal, nullTuple}

RECURSIVE SeqsUpTo(_,_)
SeqsUpTo(S, n) ==
  IF n = 0 THEN {<<>>}
  ELSE LET shorter == SeqsUpTo(S, n - 1)
       IN shorter \cup {Append(q, x) : q \in {r \in shorter : Len(r) = n - 1}, x \in S}

\* ------------------------------------------------------------------------
\* The scanner (Base Scanner). A string is a sequence of characters. A
\* pattern is a run, one or more characters out of a set, or a literal, a
\* fixed string; scanner.pattern has a group for skip and one for each
\* terminal, in the order of scanner.terminals.

MaxText == 4

Chars == {"x", "1", " ", "\n", "?"}

Run(name, chars) == [kind |-> "run", name |-> name, chars |-> chars, value |-> <<>>]
Literal(value)   == [kind |-> "lit", name |-> value, chars |-> {}, value |-> value]

\* how many characters out of chars the text has from index i (0 is first)
RECURSIVE runLen(_,_,_)
runLen(text, i, chars) ==
  IF i < Len(text) /\ text[i + 1] \in chars THEN 1 + runLen(text, i + 1, chars) ELSE 0

\* the length of what a pattern matches at index i, 0 if it does not match
matchAt(p, text, i) ==
  IF p.kind = "run" THEN runLen(text, i, p.chars)
  ELSE IF i + Len(p.value) <= Len(text) /\ SubSeq(text, i + 1, i + Len(p.value)) = p.value
  THEN Len(p.value) ELSE 0

\* the first group of the pattern which matches at index i, 0 for none
groupAt(patterns, text, i) ==
  IF \E k \in 1 .. Len(patterns) : matchAt(patterns[k], text, i) > 0
  THEN CHOOSE k \in 1 .. Len(patterns) :
         /\ matchAt(patterns[k], text, i) > 0
         /\ \A j \in 1 .. k - 1 : matchAt(patterns[j], text, i) = 0
  ELSE 0

\* pattern.exec(input) with pattern.lastIndex = from: the first index at
\* which a group matches, the group and the length; index -1 for null
exec(patterns, text, from) ==
  IF \E i \in from .. Len(text) - 1 : groupAt(patterns, text, i) # 0
  THEN LET i == CHOOSE k \in from .. Len(text) - 1 :
                  /\ groupAt(patterns, text, k) # 0
                  /\ \A j \in from .. k - 1 : groupAt(patterns, text, j) = 0
       IN [index |-> i, group |-> groupAt(patterns, text, i),
           length |-> matchAt(patterns[groupAt(patterns, text, i)], text, i)]
  ELSE [index |-> -1, group |-> 0, length |-> 0]

\* variant of nl: if there is a \n in a string
nl_any(str) == IF \E i \in 1 .. Len(str) : str[i] = "\n" THEN 1 ELSE 0

\* const nl: the number of \n in a string
RECURSIVE nl(_)
nl(str) == IF str = <<>> THEN 0 ELSE (IF Head(str) = "\n" THEN 1 ELSE 0) + nl(Tail(str))

\* factory.tuple(lineno, t, value); t is the name of the terminal, "null"
\* for null
scanTuple(lineno, t, value) == [lineno |-> lineno, t |-> t, value |-> value]

\* one round of the loop of scan() for the match m; pieces notes what the
\* round passes: the tuples and what skip has matched
roundWith(S, m) ==
  LET bad     == SubSeq(S.input, S.begin + 1, m.index)
      found   == SubSeq(S.input, m.index + 1, m.index + m.length)
      first   == IF m.index > S.begin THEN <<scanTuple(S.lineno, "null", bad)>> ELSE <<>>
      lineno1 == S.lineno + nl(bad)
      second  == IF m.group > 1
                 THEN <<scanTuple(lineno1, S.patterns[m.group].name, found)>> ELSE <<>>
      rest    == scanTuple(S.lineno, "null", SubSeq(S.input, S.begin + 1, Len(S.input)))
  IN IF m.index >= 0
     THEN [S EXCEPT !.result = @ \o first \o second,
                    !.pieces = @ \o first \o second
                                 \o (IF m.group = 1 THEN <<scanTuple(0, "skip", found)>> ELSE <<>>),
                    !.lineno = lineno1 + nl(found),
                    !.begin = m.index + m.length,
                    !.lastIndex = m.index + m.length]
     ELSE [S EXCEPT !.result = Append(@, rest), !.pieces = Append(@, rest),
                    !.lastIndex = 0, !.pc = "done"]

\* variant of scanRound: the pattern has to match at lastIndex
scanRound_sticky(S) ==
  roundWith(S, IF groupAt(S.patterns, S.input, S.lastIndex) # 0
               THEN exec(S.patterns, S.input, S.lastIndex)
               ELSE [index |-> -1, group |-> 0, length |-> 0])

scanRound(S) == roundWith(S, exec(S.patterns, S.input, S.lastIndex))

\* new Scanner(factory, skip) and the variables of scan(input) before the loop
Scanner(skip, terminals, text) ==
  [patterns |-> <<Run("skip", skip)>> \o terminals, input |-> text,
   lastIndex |-> 0, begin |-> 0, lineno |-> 1, result |-> <<>>, pieces |-> <<>>,
   pc |-> "scan"]

\* no scanner
noScanner == [Scanner({}, <<>>, <<>>) EXCEPT !.pc = ""]

\* the scanners of the model: white space or blanks to skip, Number as
\* [1]+, the literals 'x1' and 'x'
Scanners ==
  {Scanner(skip, <<Run("Number", {"1"}), Literal(<<"x", "1">>), Literal(<<"x">>)>>, text) :
     skip \in {{" ", "\n"}, {" "}}, text \in SeqsUpTo(Chars, MaxText)}

\* ------------------------------------------------------------------------
\* new Scanner(factory, skip) without a list of terminals: the constructor
\* makes the list from the literals and tokens of the factory. A literal
\* of the factory is [value, used], a token is [name, chars, used] for the
\* pattern [chars]+; names and values are strings.

MaxSymbols == 3

\* c.charCodeAt(0)
charCode ==
  [c \in {"\n", " ", "1", "?", "A", "B", "a", "b", "x"} |->
     CASE c = "\n" -> 10 [] c = " " -> 32 [] c = "1" -> 49 [] c = "?" -> 63
       [] c = "A" -> 65 [] c = "B" -> 66 [] c = "a" -> 97 [] c = "b" -> 98
       [] c = "x" -> 120]

\* a < b for strings
RECURSIVE less(_, _)
less(a, b) ==
  IF b = <<>> THEN FALSE
  ELSE IF a = <<>> THEN TRUE
  ELSE IF Head(a) # Head(b) THEN charCode[Head(a)] < charCode[Head(b)]
  ELSE less(Tail(a), Tail(b))

\* the function which sorts the literals
byValue(a, b) == IF a = b THEN 0 ELSE IF less(a.value, b.value) THEN 1 ELSE -1

\* the function which sorts the tokens
byName(a, b) == IF a = b THEN 0 ELSE IF less(a.name, b.name) THEN -1 ELSE 1

\* list.sort(compare) for the literals (byName FALSE) or the tokens: each
\* element goes behind those which are not to follow it
RECURSIVE sort(_, _)
sort(list, names) ==
  IF list = <<>> THEN <<>>
  ELSE LET rest == sort(SubSeq(list, 1, Len(list) - 1), names)
           x    == list[Len(list)]
           cmp(a, b) == IF names THEN byName(a, b) ELSE byValue(a, b)
           n    == Cardinality({i \in 1 .. Len(rest) : cmp(rest[i], x) <= 0})
       IN SubSeq(rest, 1, n) \o <<x>> \o SubSeq(rest, n + 1, Len(rest))

\* token.pat.exec(lit.value) matches all of the value
covers(token, literal) ==
  literal.value # <<>> /\ \A i \in 1 .. Len(literal.value) : literal.value[i] \in token.chars

\* the terminals of the pattern; threw if two tokens cover a literal
terminalsFor(lits, tokens) ==
  LET ls == sort(SelectSeq(lits, LAMBDA l : l.used /\ l.value # <<>>), FALSE)
      ts == sort(SelectSeq(tokens, LAMBDA t : t.used /\ t.name # <<>>), TRUE)
      screened(l) == \E i \in 1 .. Len(ts) : covers(ts[i], l)
      twice(l) == \E i, j \in 1 .. Len(ts) : i # j /\ covers(ts[i], l) /\ covers(ts[j], l)
  IN [threw |-> \E i \in 1 .. Len(ls) : twice(ls[i]),
      list  |-> [i \in 1 .. Len(ts) |-> Run(ts[i].name, ts[i].chars)] \o
                [i \in 1 .. Len(SelectSeq(ls, LAMBDA l : ~screened(l))) |->
                   Literal(SelectSeq(ls, LAMBDA l : ~screened(l))[i].value)]]

\* new Scanner(factory, skip): lits and tokens are those of the factory
construct(lits, tokens, skip) ==
  IF terminalsFor(lits, tokens).threw
  THEN [noScanner EXCEPT !.pc = "threw"] @@ [lits |-> lits, tokens |-> tokens]
  ELSE [Scanner(skip, terminalsFor(lits, tokens).list, <<>>) EXCEPT !.pc = "new"]
       @@ [lits |-> lits, tokens |-> tokens]

\* the literals and tokens of the factories of the model
FactoryLits ==
  {[value |-> v, used |-> TRUE] : v \in {<<"a">>, <<"b">>, <<"a", "b">>, <<"b", "a">>}}
    \cup {[value |-> <<"b", "b">>, used |-> FALSE], [value |-> <<>>, used |-> TRUE]}
FactoryTokens ==
  {[name |-> <<"A">>, chars |-> {"a"}, used |-> TRUE],
   [name |-> <<"B">>, chars |-> {"a", "b"}, used |-> TRUE],
   [name |-> <<"A", "B">>, chars |-> {"1"}, used |-> TRUE],
   [name |-> <<"B">>, chars |-> {"1"}, used |-> FALSE],
   [name |-> <<>>, chars |-> {}, used |-> FALSE]}

\* the symbols of a list are different objects with different names
distinct(list) ==
  \A i, j \in 1 .. Len(list) :
     i # j => IF "value" \in DOMAIN list[i] THEN list[i].value # list[j].value
              ELSE list[i].name # list[j].name

\* ------------------------------------------------------------------------
\* The factory methods of a grammar: lit(), token(), nt() (Grammar) and
\* precedence() (Base Factory). A symbol is its name; literals are quoted,
\* so a literal and a token never share a name, while tokens and
\* non-terminals follow the same pattern config.tokens = config.nts.

MaxCalls == 3

Names    == {"a", "b"}
LitNames == {"'+'"}
Assocs   == {"%left", "%right", "%both"}

has(list, name) == \E i \in 1 .. Len(list) : list[i] = name

\* t.prec of a terminal without precedence: { }
noPrec == [assoc |-> "", level |-> -1]

\* what the factory methods maintain
inventory(F) ==
  [lits |-> F.lits, tokens |-> F.tokens, nts |-> F.nts,
   levels |-> F.levels, prec |-> F.prec]

\* new Grammar(): the constructor creates $eof, $error and $accept, each
\* with the empty name
Factory ==
  [lits |-> <<"">>, tokens |-> <<"">>, nts |-> <<"">>, errors |-> 0,
   levels |-> <<>>, prec |-> [t \in Names \cup LitNames |-> noPrec],
   returned |-> "", call |-> <<>>, calls |-> 0,
   was |-> [lits |-> <<>>, tokens |-> <<>>, nts |-> <<>>,
            levels |-> <<>>, prec |-> <<>>]]

\* a call begins: remember what the inventories were
called(F, method, args) ==
  [F EXCEPT !.was = inventory(F), !.call = <<method>> \o args, !.calls = @ + 1]

\* grammar.lit(literal)
lit(F, literal) ==
  IF has(F.lits, literal) THEN [F EXCEPT !.returned = literal]
  ELSE [F EXCEPT !.lits = Append(@, literal), !.returned = literal]

\* grammar.token(name, pat): error() counts and returns, add() follows
token(F, name) ==
  IF has(F.tokens, name) THEN [F EXCEPT !.returned = name]
  ELSE [F EXCEPT !.errors = IF name # "" /\ has(F.nts, name) THEN @ + 1 ELSE @,
                 !.tokens = Append(@, name),
                 !.returned = name]

\* grammar.nt(name): error() counts and returns, add() follows
ntSymbol(F, name) ==
  IF has(F.nts, name) THEN [F EXCEPT !.returned = name]
  ELSE [F EXCEPT !.errors = IF name # "" /\ has(F.tokens, name) THEN @ + 1 ELSE @,
                 !.nts = Append(@, name),
                 !.returned = name]

\* terminals.forEach of precedence() from element i on, and what follows
RECURSIVE precedenceEach(_, _, _, _)
precedenceEach(F, assoc, terminals, i) ==
  IF i > Len(terminals)
  THEN [F EXCEPT !.levels = Append(@, [assoc |-> assoc, terminals |-> terminals]),
                 !.returned = "Precedence"]
  ELSE IF F.prec[terminals[i]].assoc # ""
  THEN [F EXCEPT !.returned = "threw"]
  ELSE precedenceEach([F EXCEPT !.prec[terminals[i]] =
                                   [assoc |-> assoc, level |-> Len(F.levels)]],
                      assoc, terminals, i + 1)

\* grammar.precedence(assoc, terminals)
precedence(F, assoc, terminals) ==
  IF assoc \notin {"%left", "%right", "%nonassoc"} THEN [F EXCEPT !.returned = "threw"]
  ELSE IF terminals = <<>> THEN [F EXCEPT !.returned = "null"]
  ELSE precedenceEach(F, assoc, terminals, 1)

\* the terminals which the factory has created, by name
created(F) == {n \in Names : has(F.tokens, n)} \cup {n \in LitNames : has(F.lits, n)}

\* ------------------------------------------------------------------------
\* The stack machine of example 6/11 (Machine11). A value is a number,
\* NaN, undefined or Infinity, as a pair; the memory object is an array of
\* values with the properties pc and continue; an instruction is a pair of
\* its name and its argument.

MaxSteps == 3
MaxCode  == 2
MaxRuns  == 3
MaxExec  == 6

numeric(n)  == <<"number", n>>
NaN        == <<"NaN", 0>>
undefined  == <<"undefined", 0>>
Infinity   == <<"Infinity", 0>>

\* a value as a condition
truthy(v) == v = Infinity \/ (v[1] = "number" /\ v[2] # 0)

\* v - 1
minus1(v) == IF v[1] = "number" THEN numeric(v[2] - 1) ELSE IF v = undefined THEN NaN ELSE v

\* a + b
added(a, b) ==
  IF a[1] = "number" /\ b[1] = "number" THEN numeric(a[2] + b[2]) ELSE NaN

\* memory.at(-k)
last(memory, k) ==
  IF k <= Len(memory) THEN memory[Len(memory) - k + 1] ELSE undefined

\* memory.splice(-n, n, ... items)
splice(memory, n, items) == SubSeq(memory, 1, Max(Len(memory) - n, 0)) \o items

\* memory.splice(-n): the elements removed
spliced(memory, n) == SubSeq(memory, Max(Len(memory) - n, 0) + 1, Len(memory))

\* memory[addr] = val, for an address up to the length
assign(memory, addr, val) ==
  IF addr < Len(memory) THEN [memory EXCEPT ![addr + 1] = val] ELSE Append(memory, val)

\* the instructions
Push(M, result) == [M EXCEPT !.memory = Append(@, numeric(result))]
Add(M)   == [M EXCEPT !.memory = splice(@, 2, <<added(last(@, 2), last(@, 1))>>)]
Pop(M)   == [M EXCEPT !.memory = splice(@, 1, <<>>)]
Load(M, addr)  == [M EXCEPT !.memory = Append(@, IF addr < Len(@) THEN @[addr + 1] ELSE undefined)]
Store(M, a)    == [M EXCEPT !.memory = assign(@, a, last(@, 1))]
Branch(M, a)   == [M EXCEPT !.pc = a]
Bzero(M, a)    == [M EXCEPT !.memory = splice(@, 1, <<>>),
                            !.pc = IF truthy(last(M.memory, 1)) THEN @ ELSE a]
Prints(M, n)    == [M EXCEPT !.memory = splice(@, n, <<>>),
                            !.out = @ \o spliced(M.memory, n)]

\* this.code[pc](memory)
ins(M, instruction) ==
  CASE instruction[1] = "Push"   -> Push(M, instruction[2])
    [] instruction[1] = "Add"    -> Add(M)
    [] instruction[1] = "Pop"    -> Pop(M)
    [] instruction[1] = "Load"   -> Load(M, instruction[2])
    [] instruction[1] = "Store"  -> Store(M, instruction[2])
    [] instruction[1] = "Branch" -> Branch(M, instruction[2])
    [] instruction[1] = "Bzero"  -> Bzero(M, instruction[2])
    [] instruction[1] = "Print"  -> Prints(M, instruction[2])

\* machine.run(size): the executable before its first call
Machine11(code, size) ==
  [code |-> code, size |-> size, memory |-> <<>>, pc |-> 0, continue |-> FALSE,
   out |-> <<>>, steps |-> undefined, at |-> "", budgets |-> <<>>, executed |-> 0,
   was |-> [memory |-> <<>>, pc |-> 0, continue |-> FALSE]]

noMachine == Machine11(<<>>, 0)

\* StackMachine(null, steps), up to the loop, with pc always 0
enter_fresh(M, fresh, steps) ==
  [M EXCEPT !.memory = [i \in 1 .. M.size |-> numeric(0)],
            !.pc = 0,
            !.steps = IF truthy(steps) THEN steps ELSE Infinity,
            !.budgets = Append(@, steps), !.executed = 0, !.at = "run",
            !.was = [memory |-> M.memory, pc |-> M.pc, continue |-> M.continue]]

\* StackMachine(memory, steps), up to the loop; fresh: memory is null
enter(M, fresh, steps) ==
  IF fresh THEN enter_fresh(M, fresh, steps)
  ELSE [M EXCEPT !.steps = steps,
                 !.budgets = Append(@, steps), !.executed = 0, !.at = "run",
                 !.was = [memory |-> M.memory, pc |-> M.pc, continue |-> M.continue]]

\* -- steps && memory.pc < this.code.length
again_pre(M) == truthy(minus1(M.steps)) /\ M.pc < Len(M.code)

\* steps -- && memory.pc < this.code.length
again(M) == truthy(M.steps) /\ M.pc < Len(M.code)

\* the body of the loop, after steps --
body(M) ==
  LET pc == M.pc
  IN [ins([M EXCEPT !.pc = @ + 1], M.code[pc + 1])
        EXCEPT !.steps = minus1(M.steps), !.executed = @ + 1]

\* after the loop
return(M) == [M EXCEPT !.continue = M.pc < Len(M.code), !.at = "returned"]

\* the loop and what follows
RECURSIVE whileLoop(_)
whileLoop(M) == IF again(M) THEN whileLoop(body(M)) ELSE return(M)

\* StackMachine(memory, steps) as a whole, for a number of steps
StackMachine(M, fresh, steps) == whileLoop(enter(M, fresh, steps))

Instructions ==
  {<<"Push", 1>>, <<"Push", 0>>, <<"Add", 0>>, <<"Pop", 0>>, <<"Load", 0>>,
   <<"Store", 0>>, <<"Branch", 0>>, <<"Bzero", 0>>, <<"Print", 1>>}

\* Push 3; Push 4; Add; Print 1; Pop
Example == <<<<"Push", 3>>, <<"Push", 4>>, <<"Add", 0>>, <<"Print", 1>>, <<"Pop", 0>>>>

Programs == {Example} \cup (SeqsUpTo(Instructions, MaxCode) \ {<<>>})

Budgets == {numeric(n) : n \in 1 .. MaxSteps}

\* ------------------------------------------------------------------------
\* Another parser of the same grammar. Of its recognitions only grammar.errors
\* is shared: parse() of a parser which is not parsing resets the counter,
\* and every error which the parser reports counts.
\*   parsing : the other parser wants more input
\*   calls   : the number of its parse() calls
\*   started : it has started a recognition
\*   since   : the number of errors which this parser had reported when
\*             the other parser has last reset the counter
\*   e       : the errors which the other parser has reported since

MaxOther == 2

noOther == [parsing |-> FALSE, calls |-> 0, started |-> FALSE, since |-> 0, e |-> 0]

\* ------------------------------------------------------------------------
\* The practice model (Model) with the globals g and run. A grammar is
\* "Grammar", an executable is named after its parameters: "run(memory,
\* steps)" is a stack machine, "run()" any other function; memory is
\* "null" or the continue flag of the memory object. call, had, same,
\* changed and threw describe the last event: its name, run and the value
\* compared before it, whether it has changed the model, and whether it
\* has ended with an error which nothing caught.

MaxFlags == 2

Modes == {"ebnf", "stack", "bnf"}

Flags ==
  {"greedy", "error", "tShallow", "tDeep", "tFollow", "dSets", "dStates",
   "tLookahead", "tParser", "tActions", "tNoargs", "build"}

\* the properties which the setter of mode assigns
ModeFlags ==
  {"greedy", "error", "tShallow", "tDeep", "tFollow", "dSets", "dStates",
   "tLookAhead", "tParser", "tActions", "tNoargs", "build"}

\* new Model(global)
Model ==
  [mode |-> "ebnf", flags |-> [f \in Flags |-> FALSE], more |-> {},
   g |-> "null", run |-> "null", memory |-> "null",
   call |-> "", had |-> "null", same |-> FALSE, changed |-> FALSE, threw |-> FALSE]

\* what an event can change
content(M) ==
  [mode |-> M.mode, flags |-> M.flags, more |-> M.more, g |-> M.g, run |-> M.run,
   memory |-> M.memory]

\* an event has taken M to N
event(M, N, name, same, threw) ==
  [N EXCEPT !.call = name, !.had = M.run, !.same = same,
            !.changed = content(N) # content(M), !.threw = threw]

\* set mode (value)
mode(M, value) ==
  IF value = M.mode THEN M
  ELSE [M EXCEPT !.flags = [f \in Flags |-> IF f \in ModeFlags THEN FALSE ELSE M.flags[f]],
                 !.more = M.more \cup (ModeFlags \ Flags),
                 !.g = "null", !.run = "null", !.mode = value]

\* model[name] = !model[name] of the script
toggle(M, name) == [M EXCEPT !.flags[name] = ~@]

\* set grammar (value) and set tokens (value) with another value
grammarText(M) == [M EXCEPT !.g = "null", !.run = "null"]

\* set actions (value) and set program (value) with another value
programText(M) == [M EXCEPT !.run = "null"]

\* doNew(): g is the grammar unless there is an error
doNew(M, made) == [M EXCEPT !.g = made, !.run = "null", !.memory = "null"]

\* doParse(): run is what parse() returns if it is a function
doParse(M, returned) ==
  IF M.g = "null" THEN M ELSE [M EXCEPT !.run = returned, !.memory = "null"]

\* doRun()
doRun(M) == IF M.run = "null" THEN M ELSE [M EXCEPT !.memory = "null"]

\* doStep(n): !typeof run is false and never 'function', what decides is
\* run.length, which null does not have; continue is what the executable
\* returns
doStep(M, continue) ==
  IF M.run = "null" THEN event(M, M, "doStep", FALSE, TRUE)
  ELSE IF M.run # "run(memory, steps)" THEN event(M, M, "doStep", FALSE, FALSE)
  ELSE event(M, [M EXCEPT !.memory = IF continue THEN "continue" ELSE "null"],
             "doStep", FALSE, FALSE)

\* ------------------------------------------------------------------------
\* Actions objects: for a rule name a method with `length` declared
\* parameters (0: none or a rest parameter) which returns an object, throws
\* a string, or throws an Error. noActions: parse() without actions.

noActions == [names |-> {}, does |-> "value", length |-> 0]
hasActions(a) == a.names # {}

ActionObjects(G) ==
  {noActions} \cup
  {[names |-> {n}, does |-> d, length |-> l] :
     n \in {G.nts[i] : i \in 2 .. Len(G.nts)} \ UniqNames,
     d \in {"value", "string", "Error"}, l \in {0, 1}}

\* ------------------------------------------------------------------------
\* State of the model.

VARIABLES
  grammar,    \* the BNF grammar: symbols, precedence levels, rules, config
  sets,       \* flags and sets of check(): reached, finite, empty, first, follow
  reduced,    \* the rules with reduced = true
  states,     \* grammar.states
  sr, rr,     \* grammar.sr, grammar.rr
  errors,     \* grammar.errors
  s,          \* loop variable of check(): the next state to advance
  parsing,    \* parser.parsing
  building,   \* parser.building
  stack,      \* parser.stack
  values,     \* parser.values
  input,      \* parser.input: [k |-> "array", a |-> tuples], "null" or "false"
  current,    \* parser.current
  tuples,     \* parser.tuples
  index,      \* parser.index
  actions,    \* parser.actions
  outcome,    \* how the last parse() call ended: "" while it runs or before
  result,     \* the value a parse() call returned
  log,        \* the messages sent to observe() in this recognition
  arg,        \* the argument `input` of the last parse() call
  used,       \* how many tuples of arg the parser has consumed:
              \* shifted, discarded, or dropped as illegal
  fed,        \* number of array elements handed to parse() so far
  ll,         \* the recursive descent parser of grammar.ebnf: the tuples and
              \* actions of its parse() call, how it ended, and the error
              \* counter of the EBNF grammar
  lookahead,  \* the sets of the EBNF grammar: what expect() and check() have
              \* returned and computed
  scanner,    \* the scanner: its patterns, the string and the variables of scan()
  factory,    \* the symbol inventories and precedence levels of a grammar under its factory methods
  machine,    \* the stack machine: its code, the memory object and the variables of the executable
  other,      \* another parser of the same grammar: whether it is parsing, and what it has done to grammar.errors
  model,      \* the practice model: mode, flags, the globals g and run, memory
  pc          \* position: in check(), between parse() calls, or in parse()

vars == <<grammar, sets, reduced, states, sr, rr, errors, s,
          parsing, building, stack, values, input, current, tuples, index,
          actions, outcome, result, log, arg, used, fed, ll, lookahead, scanner, factory, machine, other, model, pc>>

tableVars  == <<grammar, sets, reduced, states, sr, rr, s, lookahead, scanner, factory, machine, other, model>>

inputFalse == [k |-> "false", a |-> <<>>]

\* parser.state: the state on top of the stack
topState(P) == states[P.stack[Len(P.stack)] + 1]

\* the parser's fields which parse() and its parts work on, with
\* threw: the exception in flight ("" for none, "true" for more input,
\* "result" for [ result ]), and consumed: the value process() returns
snapshot ==
  [stack |-> stack, values |-> values, errors |-> errors, input |-> input,
   tuples |-> tuples, index |-> index, current |-> current, log |-> log,
   used |-> used, threw |-> "", result |-> Null, consumed |-> FALSE]

\* variant of next(): no test for input === false, an exhausted array acts
\* like an empty one
next_atEnd(P) ==
  LET load    == P.index >= Len(P.tuples)
      got     == IF P.input.k # "array" \/ P.input.a = <<>>
                 THEN <<nullTuple>> ELSE P.input.a
      tuples1 == IF load THEN got ELSE P.tuples
      index1  == IF load THEN 0 ELSE P.index
      cur     == IF tuples1[index1 + 1] = nullTuple THEN eofTuple
                 ELSE tuples1[index1 + 1]
  IN [P EXCEPT !.input = IF load THEN inputFalse ELSE P.input,
               !.tuples = [tuples1 EXCEPT ![index1 + 1] = cur],
               !.current = cur,
               !.index = IF cur.t # eof THEN index1 + 1 ELSE index1]

\* Parser.next()
next(P) ==
  LET load    == P.index >= Len(P.tuples)
      got     == IF P.input.k = "null" \/ P.input.a = <<>>
                 THEN <<nullTuple>> ELSE P.input.a
      tuples1 == IF load THEN got ELSE P.tuples
      index1  == IF load THEN 0 ELSE P.index
      cur     == IF tuples1[index1 + 1] = nullTuple THEN eofTuple
                 ELSE tuples1[index1 + 1]
  IN IF load /\ P.input.k = "false" THEN [P EXCEPT !.threw = "true"]
     ELSE [P EXCEPT !.input = IF load THEN inputFalse ELSE P.input,
                    !.tuples = [tuples1 EXCEPT ![index1 + 1] = cur],
                    !.current = cur,
                    !.index = IF cur.t # eof THEN index1 + 1 ELSE index1]

\* Base.Parser.act() with call() for a parser with the given actions: the
\* value, the number of errors reported for a wrong number of arguments,
\* and what the method throws
actWith(acts, noargs, name, args) ==
  IF hasActions(acts) /\ name \in acts.names
  THEN [value  |-> IF acts.does = "value" THEN Obj(name, args) ELSE Null,
        errors |-> IF acts.length # 0 /\ ~noargs /\ acts.length # Len(args)
                   THEN 1 ELSE 0,
        threw  |-> IF acts.does = "value" THEN "" ELSE acts.does]
  ELSE [value |-> List(args), errors |-> 0, threw |-> ""]

\* act() of the stack parser
act(name, args) == actWith(actions, grammar.config.noargs, name, args)

\* the values which a reduction by rule r takes from the value stack, and
\* the values which stay below them
reduceArgs(P, r) ==
  SubSeq(P.values, Max(Len(P.values) - Len(Rule(grammar, r).symbols), 0) + 1,
         Len(P.values))
reduceRest(P, r) ==
  SubSeq(P.values, 1, Max(Len(P.values) - Len(Rule(grammar, r).symbols), 0))

\* variant of collect: a left-recursive list is not flattened
collect_nested(r, args) == IF args = <<>> THEN Null ELSE List(args)

\* the list collected for a rule which fromEBNF() added for [ ] or { }:
\* null if empty, a left-recursive list is flattened
collect(r, args) ==
  IF Len(args) = 2 /\ Rule(grammar, r).symbols[1] = Rule(grammar, r).nt /\ isList(args[1])
  THEN List(args[1][2] \o <<args[2]>>)
  ELSE IF args = <<>> THEN Null ELSE List(args)

\* parser.values.push(result)
pushResult(P, rest, v) == [P EXCEPT !.values = Append(rest, v), !.result = v]

\* the try statement around act() in build(): a string is reported as an
\* error and replaced by null, an Error goes on
acted(P, rest, a) ==
  IF a.threw = "Error"
  THEN [P EXCEPT !.values = rest, !.errors = P.errors + a.errors, !.threw = "Error"]
  ELSE IF a.threw = "string"
  THEN pushResult([P EXCEPT !.errors = P.errors + a.errors + 1], rest, Null)
  ELSE pushResult([P EXCEPT !.errors = P.errors + a.errors], rest, a.value)

\* variant of buildReduce: the result is returned but not pushed
buildReduce_drop(P, r) ==
  [P EXCEPT !.values = reduceRest(P, r), !.result = List(reduceArgs(P, r))]

\* Parser.build(), case 'reduce'
buildReduce(P, r) ==
  IF isEBNF(grammar) /\ ntName(grammar, Rule(grammar, r).nt) \in UniqNames
  THEN pushResult(P, reduceRest(P, r), collect(r, reduceArgs(P, r)))
  ELSE acted(P, reduceRest(P, r),
             act(ntName(grammar, Rule(grammar, r).nt), reduceArgs(P, r)))

\* variant of build(): an 'error' message never pops a value
build_keep(P, tuple, verb, info) ==
  CASE verb = "shift"  -> [P EXCEPT !.values = Append(P.values, Str(tuple.value)),
                                    !.result = Null]
    [] verb = "reduce" -> buildReduce(P, info)
    [] verb = "goto"   -> [P EXCEPT !.result = Null]
    [] verb = "accept" -> [P EXCEPT !.values = SubSeq(P.values, 1, Len(P.values) - 1),
                                    !.result = IF P.values = <<>> THEN Null
                                               ELSE P.values[Len(P.values)]]
    [] verb = "error"  -> [P EXCEPT !.result = Null]

\* Parser.build(): info is -1 for the 'error' message without text
build(P, tuple, verb, info) ==
  CASE verb = "shift"  -> [P EXCEPT !.values = Append(P.values, Str(tuple.value)),
                                    !.result = Null]
    [] verb = "reduce" -> buildReduce(P, info)
    [] verb = "goto"   -> [P EXCEPT !.result = Null]
    [] verb = "accept" -> [P EXCEPT !.values = SubSeq(P.values, 1, Len(P.values) - 1),
                                    !.result = IF P.values = <<>> THEN Null
                                               ELSE P.values[Len(P.values)]]
    [] verb = "error"  -> [P EXCEPT !.values = IF info = -1
                                               THEN SubSeq(P.values, 1, Len(P.values) - 1)
                                               ELSE P.values,
                                    !.result = Null]

\* Parser.observe() without this.grammar.error(info)
observed_quiet(B, tuple, verb, info) ==
  IF B.threw # "" THEN B
  ELSE [B EXCEPT !.log = Append(B.log, [verb |-> verb, info |-> info, t |-> tuple.t])]

\* Parser.observe() once build() is done: the message is traced and the
\* text of an 'error' message is reported
observed(B, tuple, verb, info) ==
  IF B.threw # "" THEN B
  ELSE [B EXCEPT !.log = Append(B.log, [verb |-> verb, info |-> info, t |-> tuple.t]),
                 !.errors = IF verb = "error" /\ info # -1 THEN B.errors + 1
                            ELSE B.errors]

\* Parser.observe()
observe(P, tuple, verb, info) ==
  observed(IF building THEN build(P, tuple, verb, info) ELSE [P EXCEPT !.result = Null],
           tuple, verb, info)

\* Parser.process(), case 'reduce', once the goto message g is found
goto(U, tuple, g) ==
  IF g.verb # "goto" \/ g.info < 0 \/ g.info >= Len(states)
  THEN [U EXCEPT !.threw = "assertion error: process()"]
  ELSE [observe(U, tuple, g.verb, g.info) EXCEPT !.stack = Append(U.stack, g.info),
                                                 !.consumed = FALSE]

\* Parser.process(), case 'reduce', once the stack is popped: access to an
\* uncovered state or goto entry which does not exist raises a TypeError
uncovered(U, tuple, nt) ==
  IF U.stack = <<>> \/ nt \notin DOMAIN topState(U).messages
  THEN [U EXCEPT !.threw = "TypeError"]
  ELSE goto(U, tuple, topState(U).messages[nt])

\* Parser.process() once the observer is informed of message m; a stack
\* length below zero raises a RangeError
processed(O, tuple, m) ==
  IF O.threw # "" THEN O
  ELSE CASE m.verb = "accept" -> [O EXCEPT !.threw = "result"]
         [] m.verb = "shift"  -> [O EXCEPT !.stack = Append(O.stack, m.info),
                                           !.consumed = TRUE]
         [] m.verb = "reduce" ->
              IF Len(Rule(grammar, m.info).symbols) > Len(O.stack)
              THEN [O EXCEPT !.threw = "RangeError"]
              ELSE uncovered([O EXCEPT !.stack = SubSeq(O.stack, 1,
                                  Len(O.stack) - Len(Rule(grammar, m.info).symbols))],
                             tuple, Rule(grammar, m.info).nt)
         [] OTHER -> [O EXCEPT !.threw = "fatal error: process()"]

\* Parser.process() with the message m of the current state for the tuple
message(P, tuple, m) == processed(observe(P, tuple, m.verb, m.info), tuple, m)

\* Parser.process()
process(P, tuple) == message(P, tuple, topState(P).messages[tuple.t])

\* ------------------------------------------------------------------------
\* The recursive descent parser (EBNF Parser). L holds the parser's
\* fields: tuples and index (-1 before the first next()), the actions, the
\* error counter of the EBNF grammar, and threw: what is thrown ("" for
\* nothing); value is the value which a parse() method returns.

\* parser.current: null at the end of input
llCurrent(L) ==
  IF L.index >= 0 /\ L.index < Len(L.tuples) THEN L.tuples[L.index + 1] ELSE nullTuple

\* Set.match(parser.current): by the name of the terminal
match(expect, L) ==
  llCurrent(L) # nullTuple /\ terminalName(grammar, llCurrent(L).t) \in expect

\* the loop of Parser.next() once the index is advanced: illegal characters
\* are ignored, the first of a sequence is reported
RECURSIVE ignoreIllegal(_,_)
ignoreIllegal(L, report) ==
  IF llCurrent(L).t # -1 THEN L
  ELSE ignoreIllegal([L EXCEPT !.index = L.index + 1,
                               !.errors = IF report THEN L.errors + 1 ELSE L.errors],
                     FALSE)

\* EBNF Parser.next()
llNext(L) ==
  IF L.tuples = <<>> \/ L.index >= Len(L.tuples)
  THEN [L EXCEPT !.threw = "no more input"]
  ELSE ignoreIllegal([L EXCEPT !.index = L.index + 1], TRUE)

\* Rule.parse() once the right-hand side is recognized: the action a has
\* been called and what it throws goes on
ruleActed(L, a) ==
  [L EXCEPT !.errors = L.errors + a.errors, !.threw = a.threw, !.value = a.value]

\* the finally clause of Rule.parse(): pops parser.ruleStack; where notes
\* the rules on parser.ruleStack when something thrown comes to the first
\* finally clause
unwind(L) ==
  [L EXCEPT !.ruleStack = SubSeq(@, 1, Len(@) - 1),
            !.where = IF L.threw # "" /\ ~L.unwound THEN L.ruleStack ELSE @,
            !.unwound = @ \/ L.threw # ""]

\* node.parse(parser) for each class of nodes
RECURSIVE parseNode(_,_,_), parseSeq(_,_,_,_), collected(_,_,_,_), parseAlt(_,_,_),
          parseRule(_,_,_), ruleDone(_,_,_), parseSome(_,_,_,_)
parseNode(E, L, node) ==
  IF isTerminal(node) THEN llNext([L EXCEPT !.value = Str(llCurrent(L).value)])
  ELSE IF isNode(node) THEN parseRule(E, L, node[2])
  ELSE IF isOpt(node) THEN parseAlt(E, L, node[2])
  ELSE parseSome(E, parseAlt(E, L, node[2]), node[2], <<>>)

\* Seq.parse(): results holds the values collected so far
parseSeq(E, L, nodes, results) ==
  IF nodes = <<>> THEN [L EXCEPT !.value = List(results)]
  ELSE IF match(deepNode(E, Head(nodes)), L)
  THEN collected(E, parseNode(E, L, Head(nodes)), Tail(nodes), results)
  ELSE IF isOpt(Head(nodes)) THEN parseSeq(E, L, Tail(nodes), Append(results, Null))
  ELSE [L EXCEPT !.threw = "in sequence, expects"]
collected(E, L, nodes, results) ==
  IF L.threw # "" THEN L ELSE parseSeq(E, L, nodes, Append(results, L.value))

\* Alt.parse(): the first alternative which expects the current tuple
parseAlt(E, L, seqs) ==
  IF \A i \in 1 .. Len(seqs) : ~match(deepSeq(E, seqs[i]), L)
  THEN [L EXCEPT !.threw = "assertion error: Alt parse()"]
  ELSE parseSeq(E, L,
                seqs[CHOOSE i \in 1 .. Len(seqs) :
                       /\ match(deepSeq(E, seqs[i]), L)
                       /\ \A j \in 1 .. i - 1 : ~match(deepSeq(E, seqs[j]), L)],
                <<>>)

\* Rule.parse(): try without catch
\* the rule is pushed to parser.ruleStack, and popped in the finally clause
parseRule(E, L, name) ==
  ruleDone(E, parseAlt(E, [L EXCEPT !.ruleStack = Append(@, name)],
                       ebnfRule(E, name).seqs), name)
ruleDone(E, L, name) ==
  unwind(IF L.threw # "" THEN L
         ELSE ruleActed(L, actWith(L.actions, E.config.noargs, name, L.value[2])))

\* Some.parse(): L is the parser after one more round, results holds the
\* lists of the rounds before
parseSome(E, L, seqs, results) ==
  IF L.threw # "" THEN L
  ELSE IF match(deepAlt(E, seqs), L)
  THEN parseSome(E, parseAlt(E, L, seqs), seqs, Append(results, L.value))
  ELSE [L EXCEPT !.value = List(Append(results, L.value))]

\* EBNF Parser.parse(), the try block after the first next()
llStart(E, L) ==
  IF L.threw # "" THEN L
  ELSE IF ~match(deepAlt(E, E.rules[1].seqs), L) THEN [L EXCEPT !.threw = "expects"]
  ELSE parseRule(E, L, E.rules[1].nt)

\* variant of llEnd: what the start rule returns is the result
llEnd_any(L) ==
  IF L.threw # ""
  THEN [input |-> L.tuples, actions |-> L.actions, outcome |-> "threw",
        cause |-> L.threw, value |-> Null, errors |-> L.errors + 1,
        index |-> L.index, done |-> FALSE,
        at |-> llCurrent(L), active |-> L.ruleStack, failedIn |-> L.where]
  ELSE [input |-> L.tuples, actions |-> L.actions, outcome |-> "result",
        cause |-> "", value |-> L.value, errors |-> L.errors,
        index |-> L.index, done |-> TRUE,
        at |-> llCurrent(L), active |-> L.ruleStack, failedIn |-> L.where]

\* EBNF Parser.parse(), the end of the try block and the catch clause:
\* whatever is caught is reported as an error and thrown as a message;
\* index is parser.index at the end, done: start.parse() has returned;
\* Parser.error() names the current tuple (at) and the rules on
\* parser.ruleStack (active)
llEnd(L) ==
  IF L.threw # ""
  THEN [input |-> L.tuples, actions |-> L.actions, outcome |-> "threw",
        cause |-> L.threw, value |-> Null, errors |-> L.errors + 1,
        index |-> L.index, done |-> FALSE,
        at |-> llCurrent(L), active |-> L.ruleStack, failedIn |-> L.where]
  ELSE IF llCurrent(L) # nullTuple
  THEN [input |-> L.tuples, actions |-> L.actions, outcome |-> "threw",
        cause |-> "too much input", value |-> Null, errors |-> L.errors + 1,
        index |-> L.index, done |-> TRUE,
        at |-> llCurrent(L), active |-> L.ruleStack, failedIn |-> L.where]
  ELSE [input |-> L.tuples, actions |-> L.actions, outcome |-> "result",
        cause |-> "", value |-> L.value, errors |-> L.errors,
        index |-> L.index, done |-> TRUE,
        at |-> llCurrent(L), active |-> L.ruleStack, failedIn |-> L.where]

\* the recursive descent parser before parse() is called
notParsed ==
  [input |-> <<>>, actions |-> noActions, outcome |-> "", cause |-> "",
   value |-> Null, errors |-> 0, index |-> -1, done |-> FALSE,
   at |-> nullTuple, active |-> <<>>, failedIn |-> <<>>]

\* EBNF Parser.parse(input, actions) for the tuples which scan() makes of
\* the input; super.parse() resets the error counter
llParse(E, scanned, acts) ==
  llEnd(llStart(E, llNext([tuples |-> scanned, index |-> -1, actions |-> acts,
                           errors |-> 0, threw |-> "", value |-> Null,
                           ruleStack |-> <<>>, where |-> <<>>, unwound |-> FALSE])))

\* ------------------------------------------------------------------------
\* The grammars of the model, as the factory methods leave them; rule
\* zero is reserved with an empty right-hand side until check(start).

defaultConfig == [build |-> FALSE, noargs |-> FALSE, error |-> FALSE]

BNF(lits, tokens, nts, levels, rules, start, config) ==
  LET G0 == [lits |-> lits, tokens |-> tokens, nts |-> nts, levels |-> levels,
             rules |-> <<>>, ebnf |-> noEBNF, start |-> start, config |-> config]
      base == Len(lits) + Len(tokens)
  IN [G0 EXCEPT !.rules =
        <<[nt |-> base, symbols |-> <<>>, prec |-> -1]>> \o
        [i \in 1 .. Len(rules) |-> rule(G0, rules[i][1], rules[i][2], rules[i][3])]]

\* ------------------------------------------------------------------------
\* Grammar.fromEBNF(ebnf, config). T holds the non-terminals of the new
\* grammar ($accept first) and the rules created so far, with symbols by
\* name; sym is the symbol and list the right-hand side which the last
\* step has made. "$error" is the name used here for grammar.token().

newNT(T) ==
  [T EXCEPT !.nts = Append(T.nts, uniqName(Len(T.nts))), !.sym = uniqName(Len(T.nts))]

\* g.nt(name): created unless it exists
namedNT(T, name) ==
  [T EXCEPT !.nts = IF \E i \in 1 .. Len(T.nts) : T.nts[i] = name THEN T.nts
                    ELSE Append(T.nts, name),
            !.sym = name]

\* g.rule(nt, symbols): the sequences of the model have no %prec terminal
addRule(T, nt, symbols) ==
  [T EXCEPT !.rules = Append(T.rules, [nt |-> nt, symbols |-> symbols])]

\* g.rule(nt, seq(s)) once seq(s) has left the right-hand side in T.list
seqRule(T, nt) == addRule(T, nt, T.list)

\* const some without nt: nt nt1
someRules_once(T, nt, nt1, withError) ==
  [(IF withError
    THEN addRule(addRule(addRule(T, nt, <<nt1>>), nt, <<"$error">>), nt, <<nt, "$error">>)
    ELSE addRule(T, nt, <<nt1>>))
   EXCEPT !.sym = nt]

\* const some: the rules of the list nt once the rules of nt1 are created
someRules(T, nt, nt1, withError) ==
  [(IF withError
    THEN addRule(addRule(addRule(addRule(T, nt, <<nt1>>), nt, <<nt, nt1>>),
                         nt, <<"$error">>), nt, <<nt, "$error">>)
    ELSE addRule(addRule(T, nt, <<nt1>>), nt, <<nt, nt1>>))
   EXCEPT !.sym = nt]

RECURSIVE seq(_,_,_,_), listed(_,_,_,_), term(_,_,_), altRules(_,_,_,_,_)
\* const seq: a b ... -> [ a, b, ... ]
seq(cfg, T, nodes, list) ==
  IF nodes = <<>> THEN [T EXCEPT !.list = list]
  ELSE listed(cfg, term(cfg, T, Head(nodes)), Tail(nodes), list)
listed(cfg, T, nodes, list) == seq(cfg, T, nodes, Append(list, T.sym))

\* one step of const seq: the symbol for a node; const opt and const some
\* create unique non-terminals and their rules
term(cfg, T, node) ==
  IF isTerminal(node) THEN [T EXCEPT !.sym = node[2]]
  ELSE IF isNode(node) THEN namedNT(T, node[2])
  ELSE IF isOpt(node)
  THEN [altRules(cfg, addRule(newNT(T), uniqName(Len(T.nts)), <<>>),
                 uniqName(Len(T.nts)), node[2], 1)
        EXCEPT !.sym = uniqName(Len(T.nts))]
  ELSE someRules(altRules(cfg, newNT(newNT(T)), uniqName(Len(T.nts) + 1), node[2], 1),
                 uniqName(Len(T.nts)), uniqName(Len(T.nts) + 1), cfg.error)

\* seqs.forEach(s => g.rule(nt, seq(s)))
altRules(cfg, T, nt, seqs, i) ==
  IF i > Len(seqs) THEN T
  ELSE altRules(cfg, seqRule(seq(cfg, T, seqs[i], <<>>), nt), nt, seqs, i + 1)

\* ebnf.rules.forEach(...): records each non-terminal, creates its rules
RECURSIVE ruleRules(_,_,_,_)
ruleRules(cfg, T, rules, i) ==
  IF i > Len(rules) THEN T
  ELSE ruleRules(cfg, altRules(cfg, namedNT(T, rules[i].nt), rules[i].nt, rules[i].seqs, 1),
                 rules, i + 1)

\* symbol.ord in the grammar with the given literals, tokens, non-terminals
ordOf(lits, tokens, nts, name) ==
  IF name = "$error" THEN Len(lits)
  ELSE IF \E i \in 1 .. Len(lits) : lits[i] = name
  THEN (CHOOSE i \in 1 .. Len(lits) : lits[i] = name) - 1
  ELSE IF \E i \in 1 .. Len(tokens) : tokens[i] = name
  THEN Len(lits) + (CHOOSE i \in 1 .. Len(tokens) : tokens[i] = name) - 1
  ELSE Len(lits) + Len(tokens) + (CHOOSE i \in 1 .. Len(nts) : nts[i] = name) - 1

\* the new grammar with literals, tokens and levels copied, before check()
lowered(E, config, lits, tokens, T) ==
  [BNF(lits, tokens, T.nts,
       [l \in 1 .. Len(E.levels) |->
          [assoc |-> E.levels[l].assoc,
           terminals |-> [k \in 1 .. Len(E.levels[l].terminals) |->
                            ordOf(lits, tokens, T.nts, E.levels[l].terminals[k])]]],
       [r \in 1 .. Len(T.rules) |->
          << ordOf(lits, tokens, T.nts, T.rules[r].nt),
             [k \in 1 .. Len(T.rules[r].symbols) |->
                ordOf(lits, tokens, T.nts, T.rules[r].symbols[k])],
             -1 >>],
       ordOf(lits, tokens, T.nts, E.rules[1].nt), config)
   EXCEPT !.ebnf = E]

\* Grammar.fromEBNF(): g.check(start) is the work of Check, Advance, CheckEnd
fromEBNF(E, config) ==
  lowered(E, config, <<"">> \o E.lits, <<"">> \o E.tokens,
          ruleRules(config, [nts |-> <<"", E.rules[1].nt>>, rules |-> <<>>,
                             sym |-> "", list |-> <<>>],
                    E.rules, 1))

\* %assoc '+'; %left '*';
\* expr: expr '+' expr; expr: expr '*' expr; expr: Number;
\*   0 $eof  1 '+'  2 '*'  3 $error  4 Number  5 $accept  6 expr
Expr(assoc, config) ==
  BNF(<<"", "'+'", "'*'">>, <<"", "Number">>, <<"", "expr">>,
      <<[assoc |-> assoc, terminals |-> <<1>>], [assoc |-> "%left", terminals |-> <<2>>]>>,
      << <<6, <<6, 1, 6>>, -1>>, <<6, <<6, 2, 6>>, -1>>, <<6, <<4>>, -1>> >>,
      6, config)

\* stmts: stmt; stmts: stmts stmt; stmt: 'let' Name ';'; stmt: $error ';';
\*   0 $eof  1 'let'  2 ';'  3 $error  4 Name  5 $accept  6 stmts  7 stmt
Stmts ==
  BNF(<<"", "'let'", "';'">>, <<"", "Name">>, <<"", "stmts", "stmt">>, <<>>,
      << <<6, <<7>>, -1>>, <<6, <<6, 7>>, -1>>,
         <<7, <<1, 4, 2>>, -1>>, <<7, <<3, 2>>, -1>> >>,
      6, defaultConfig)

\* s: b; s: a; a: 'x'; b: 'x';
\*   0 $eof  1 'x'  2 $error  3 $accept  4 s  5 b  6 a
Same ==
  BNF(<<"", "'x'">>, <<"">>, <<"", "s", "b", "a">>, <<>>,
      << <<4, <<5>>, -1>>, <<4, <<6>>, -1>>, <<6, <<1>>, -1>>, <<5, <<1>>, -1>> >>,
      4, defaultConfig)

\* list: items '.'; items: ; items: items 'x'; items: items $error;
\*   0 $eof  1 '.'  2 'x'  3 $error  4 $accept  5 list  6 items
Items ==
  BNF(<<"", "'.'", "'x'">>, <<"">>, <<"", "list", "items">>, <<>>,
      << <<5, <<6, 1>>, -1>>, <<6, <<>>, -1>>, <<6, <<6, 2>>, -1>>, <<6, <<6, 3>>, -1>> >>,
      5, [defaultConfig EXCEPT !.build = TRUE])

\* s: a a; a: ; a: 'x';    (check() does not complete)
\*   0 $eof  1 'x'  2 $error  3 $accept  4 s  5 a
Twice ==
  BNF(<<"", "'x'">>, <<"">>, <<"", "s", "a">>, <<>>,
      << <<4, <<5, 5>>, -1>>, <<5, <<>>, -1>>, <<5, <<1>>, -1>> >>,
      4, defaultConfig)

\* s: { 'x' } [ 'y' ];
XsE ==
  [noEBNF EXCEPT
     !.lits  = <<"'x'", "'y'">>,
     !.rules = <<[nt |-> "s",
                  seqs |-> << <<Some(<< <<Lit("'x'")>> >>), Opt(<< <<Lit("'y'")>> >>)>> >>]>>]

\* list: item { ',' item }; item: Number;
ListE ==
  [noEBNF EXCEPT
     !.lits   = <<"','">>,
     !.tokens = <<"Number">>,
     !.rules  = <<[nt |-> "list",
                   seqs |-> << <<NT("item"), Some(<< <<Lit("','"), NT("item")>> >>)>> >>],
                  [nt |-> "item", seqs |-> << <<Token("Number")>> >>]>>]

\* s: { 'x' } 'x';    (check() finds the ambiguity)
AmbE ==
  [noEBNF EXCEPT
     !.lits  = <<"'x'">>,
     !.rules = <<[nt |-> "s", seqs |-> << <<Some(<< <<Lit("'x'")>> >>), Lit("'x'")>> >>]>>]

Grammars ==
  {Expr("%left", defaultConfig), Expr("%right", defaultConfig),
   Expr("%nonassoc", defaultConfig), Stmts, Same, Items, Twice,
   fromEBNF(XsE, defaultConfig), fromEBNF(XsE, [defaultConfig EXCEPT !.error = TRUE]),
   fromEBNF(ListE, defaultConfig), fromEBNF(AmbE, defaultConfig)}

\* ------------------------------------------------------------------------
\* Grammar.check(start)

EmptySets(G) ==
  [ruleReached |-> {}, ntReached |-> {}, ruleFinite |-> {}, ntFinite |-> {},
   ntEmpty |-> ntEmpty0(G), ruleFirst |-> [r \in RuleIndexes(G) |-> {}],
   ntFirst |-> [n \in NTs(G) |-> {}], ntFollow |-> [n \in NTs(G) |-> {}],
   threw |-> FALSE]

parserVars == <<parsing, building, stack, values, input, current, tuples, index,
                actions, outcome, result, log, arg, used, fed>>

\* check() up to the creation of states[0]
Check ==
  /\ pc = "new"
  /\ LET G == [grammar EXCEPT !.rules[1].symbols = <<grammar.start, eof>>]
         A == analyse(G)
     IN /\ grammar' = G
        /\ sets' = A
        /\ errors' = errors + analysisErrors(G, A)
        /\ states' = IF A.threw THEN <<>> ELSE <<state(G, <<mark(0, 0)>>)>>
        /\ pc' = IF A.threw THEN "threw" ELSE "advance"
  /\ UNCHANGED <<reduced, sr, rr, s>>
  /\ UNCHANGED <<parserVars, ll, lookahead, scanner, factory, machine, other, model>>

\* one round of the loop of check(): states[s].advance(s)
Advance ==
  /\ pc = "advance"
  /\ s < Len(states)
  /\ LET T == advance(grammar, sets,
                [states |-> states, reduced |-> reduced, sr |-> sr, rr |-> rr], s)
     IN /\ states' = T.states
        /\ reduced' = T.reduced
        /\ sr' = T.sr
        /\ rr' = T.rr
  /\ s' = s + 1
  /\ UNCHANGED <<grammar, sets, errors, pc>>
  /\ UNCHANGED <<parserVars, ll, lookahead, scanner, factory, machine, other, model>>

\* the end of check(): every rule which is not reduced is an error
CheckEnd ==
  /\ pc = "advance"
  /\ s >= Len(states)
  /\ errors' = errors + Cardinality(RuleIndexes(grammar) \ reduced)
  /\ pc' = "idle"
  /\ UNCHANGED <<grammar, sets, reduced, states, sr, rr, s>>
  /\ UNCHANGED <<parserVars, ll, lookahead, scanner, factory, machine, other, model>>

\* ------------------------------------------------------------------------
\* Parser.parse(input, actions)

\* variant of the catch clause: the parser stays parsing whatever is caught
finish_parsing(P) ==
  /\ stack' = P.stack
  /\ values' = P.values
  /\ errors' = P.errors
  /\ input' = P.input
  /\ tuples' = P.tuples
  /\ index' = P.index
  /\ current' = P.current
  /\ log' = P.log
  /\ used' = P.used
  /\ parsing' = TRUE
  /\ outcome' = P.threw
  /\ result' = IF P.threw = "result" THEN P.result ELSE Null
  /\ pc' = "idle"

\* the catch clause of parse(): only `true` keeps the parser parsing
finish(P) ==
  /\ stack' = P.stack
  /\ values' = P.values
  /\ errors' = P.errors
  /\ input' = P.input
  /\ tuples' = P.tuples
  /\ index' = P.index
  /\ current' = P.current
  /\ log' = P.log
  /\ used' = P.used
  /\ parsing' = (P.threw = "true")
  /\ outcome' = P.threw
  /\ result' = IF P.threw = "result" THEN P.result ELSE Null
  /\ pc' = "idle"

\* parse() goes on, at position p
goOn(P, p) ==
  /\ stack' = P.stack
  /\ values' = P.values
  /\ errors' = P.errors
  /\ input' = P.input
  /\ tuples' = P.tuples
  /\ index' = P.index
  /\ current' = P.current
  /\ log' = P.log
  /\ used' = P.used
  /\ pc' = p
  /\ UNCHANGED <<parsing, outcome, result>>

\* the arrays of tuples a caller can still pass
Chunks == SeqsUpTo(InputTuples(grammar), Max(MaxInput - fed, 0))

\* parse(input) or parse(input, actions) is called with an array or null:
\* the part up to the try statement
Parse(inp, given, acts) ==
  /\ pc = "idle"
  /\ IF parsing /\ given
     THEN \* assertion: cannot accept actions while parsing
          /\ outcome' = "assertion error: parse()"
          /\ UNCHANGED <<parsing, building, stack, values, input, current, tuples,
                         index, actions, result, log, errors, pc, arg, used, fed>>
     ELSE /\ IF parsing
             THEN UNCHANGED <<parsing, stack, errors, actions, building, values, log>>
             ELSE /\ parsing' = TRUE
                  /\ stack' = <<0>>
                  /\ errors' = 0
                  /\ actions' = IF given THEN acts ELSE actions
                  /\ building' = (grammar.config.build \/ isEBNF(grammar) \/ hasActions(actions'))
                  /\ values' = IF building' THEN <<List(<<>>)>> ELSE values
                  /\ log' = <<>>
          /\ input' = inp
          /\ current' = nullTuple
          /\ tuples' = <<>>
          /\ index' = 0
          /\ outcome' = ""
          /\ result' = Null
          /\ arg' = inp
          /\ used' = 0
          /\ fed' = fed + Len(inp.a)
          /\ pc' = "loop"
  /\ UNCHANGED <<tableVars, ll>>

\* while (!this.current.t) this.next() of recover()
RECURSIVE dropIllegal(_)
dropIllegal(P) ==
  IF P.threw # "" \/ P.current.t # -1 THEN P
  ELSE dropIllegal(next([P EXCEPT !.used = P.used + 1]))

expected(P) == P.current.t >= 0 /\ P.current.t \in DOMAIN topState(P).messages

\* whatever is thrown ends the call in the catch clause, else parse() goes on
resume(P, p) == IF P.threw # "" THEN finish(P) ELSE goOn(P, p)

\* if (this.process(this.current)) this.next()
consume(P) ==
  IF P.threw = "" /\ P.consumed THEN next([P EXCEPT !.used = P.used + 1]) ELSE P

\* the body of the loop of parse() once there is a current tuple
loop(P) ==
  IF P.threw # "" THEN finish(P)
  ELSE IF expected(P) THEN resume(consume(process(P, P.current)), "loop")
  ELSE resume(dropIllegal(observe(P, P.current, "error", 1)), "recover")

\* one round of the loop of parse(): fetch a tuple if there is none, then
\* process it if the state expects it, else enter recover()
Loop ==
  /\ pc = "loop"
  /\ loop(IF current = nullTuple THEN next(snapshot) ELSE snapshot)
  /\ UNCHANGED <<building, actions, arg, fed, ll>>
  /\ UNCHANGED tableVars

\* recover(): this.stack.pop() after the 'error' message without text
pop(P) == goOn([P EXCEPT !.stack = SubSeq(P.stack, 1, Len(P.stack) - 1)], "recover")

\* recover() after process($error): on to position p once $error is shifted
errorShifted(P, p) ==
  IF P.threw # "" THEN finish(P) ELSE goOn(P, IF P.consumed THEN p ELSE "recover")

\* the body of the loop `pop:` of recover()
recover(P, p) ==
  IF P.stack = <<>> THEN finish([P EXCEPT !.threw = "irrecoverable error"])
  ELSE IF error(grammar) \notin DOMAIN topState(P).messages
  THEN pop(observe(P, P.current, "error", -1))
  ELSE errorShifted(process(P, errorTuple(grammar)), p)

\* variant of Recover: returns to the loop of parse() once $error is shifted
Recover_return ==
  /\ pc = "recover"
  /\ recover(snapshot, "loop")
  /\ UNCHANGED <<building, actions, arg, fed, ll>>
  /\ UNCHANGED tableVars

\* one round of the loop `pop:` of recover()
Recover ==
  /\ pc = "recover"
  /\ recover(snapshot, "search")
  /\ UNCHANGED <<building, actions, arg, fed, ll>>
  /\ UNCHANGED tableVars

\* recover() after process(current): back to parse() once the tuple is shifted
found(P) ==
  IF P.threw # "" THEN finish(P)
  ELSE IF P.consumed
  THEN goOn([P EXCEPT !.current = nullTuple, !.used = P.used + 1], "loop")
  ELSE goOn(P, "search")

\* the body of the loop of recover() after $error was shifted
search(P) ==
  IF expected(P) THEN found(process(P, P.current))
  ELSE IF P.current.t = eof THEN finish([P EXCEPT !.threw = "irrecoverable error"])
  ELSE resume(next([P EXCEPT !.used = P.used + 1]), "search")

\* one round of the loop of recover() after $error was shifted
Search ==
  /\ pc = "search"
  /\ search(snapshot)
  /\ UNCHANGED <<building, actions, arg, fed, ll>>
  /\ UNCHANGED tableVars

\* ------------------------------------------------------------------------
\* A recognition as a whole: what the calls of parse() for the chunks of an
\* input make of the parser which the first call has set up. R is the
\* parser with at: where parse() was when the call ended ("loop" for the
\* loop of parse(), "recover" and "search" for the two parts of recover()).

endedAt(P, p) == [P |-> P, at |-> p]

\* parse() from position p on to the end of the call
RECURSIVE run(_,_)
run(P, p) ==
  IF P.threw # "" THEN endedAt(P, p)
  ELSE IF p = "loop"
  THEN LET Q == IF P.current = nullTuple THEN next(P) ELSE P
       IN IF Q.threw # "" THEN endedAt(Q, "loop")
          ELSE IF expected(Q) THEN run(consume(process(Q, Q.current)), "loop")
          ELSE run(dropIllegal(observe(Q, Q.current, "error", 1)), "recover")
  ELSE IF p = "recover"
  THEN IF P.stack = <<>> THEN endedAt([P EXCEPT !.threw = "irrecoverable error"], p)
       ELSE IF error(grammar) \notin DOMAIN topState(P).messages
       THEN LET Q == observe(P, P.current, "error", -1)
            IN run([Q EXCEPT !.stack = SubSeq(Q.stack, 1, Len(Q.stack) - 1)], "recover")
       ELSE LET Q == process(P, errorTuple(grammar))
            IN run(Q, IF Q.threw = "" /\ ~Q.consumed THEN "recover" ELSE "search")
  ELSE IF expected(P)
  THEN LET Q == process(P, P.current)
       IN IF Q.threw # "" THEN endedAt(Q, "search")
          ELSE IF Q.consumed
          THEN run([Q EXCEPT !.current = nullTuple, !.used = Q.used + 1], "loop")
          ELSE run(Q, "search")
  ELSE IF P.current.t = eof THEN endedAt([P EXCEPT !.threw = "irrecoverable error"], p)
  ELSE run(next([P EXCEPT !.used = P.used + 1]), "search")

\* variant of moreInput: the current tuple stays
moreInput_current(P, chunk) ==
  [P EXCEPT !.threw = "", !.input = [k |-> "array", a |-> chunk],
            !.tuples = <<>>, !.index = 0]

\* parse(chunk) of a parser which is parsing, up to the try statement
moreInput(P, chunk) ==
  [P EXCEPT !.threw = "", !.input = [k |-> "array", a |-> chunk],
            !.current = nullTuple, !.tuples = <<>>, !.index = 0]

\* the calls for chunks from i on, as long as parse() asks for more;
\* inside: a call has asked for more from within recover()
RECURSIVE feed(_,_,_)
feed(R, chunks, i) ==
  IF R.P.threw # "true" \/ i > Len(chunks) THEN R
  ELSE LET T == run(moreInput(R.P, chunks[i]), "loop")
       IN feed([T EXCEPT !.at = IF R.at # "loop" THEN R.at ELSE T.at], chunks, i + 1)

\* the input a in consecutive chunks which end behind the indices in cuts
RECURSIVE split(_,_)
split(a, cuts) ==
  IF cuts = {} THEN <<a>>
  ELSE LET k == CHOOSE c \in cuts : \A d \in cuts : c <= d
       IN <<SubSeq(a, 1, k)>> \o split(SubSeq(a, k + 1, Len(a)), {c - k : c \in cuts \ {k}})

\* the recognition of the input a in chunks, for the parser P at the start
chunked(P, a, cuts) ==
  feed(run([P EXCEPT !.input = [k |-> "array", a |-> split(a, cuts)[1]]], "loop"),
       split(a, cuts), 2)

\* ------------------------------------------------------------------------
\* Specification. A behaviour checks one grammar of the catalogue and then
\* either feeds the stack parser with arrays of tuples, call after call, or
\* has the recursive descent parser of the EBNF grammar parse a string and
\* then the stack parser parse the same string: the two parsers are
\* separate objects with separate grammars, neither changes the other.

\* the objects as their constructors leave them
Fresh ==
  /\ sets = EmptySets(grammar)
  /\ reduced = {}
  /\ states = <<>>
  /\ sr = 0
  /\ rr = 0
  /\ errors = 0
  /\ s = 0
  /\ parsing = FALSE
  /\ building = FALSE
  /\ stack = <<>>
  /\ values = <<>>
  /\ input = inputFalse
  /\ current = nullTuple
  /\ tuples = <<>>
  /\ index = 0
  /\ actions = noActions
  /\ outcome = ""
  /\ result = Null
  /\ log = <<>>
  /\ arg = inputFalse
  /\ used = 0
  /\ fed = 0
  /\ ll = notParsed
  /\ lookahead = noSets
  /\ model = Model
  /\ other = noOther
  /\ machine = noMachine
  /\ factory = Factory
  /\ scanner = noScanner

Init ==
  /\ grammar \in Grammars
  /\ Fresh
  /\ pc = "new"

\* parse(input) or parse(input, actions) with an array of tuples
ParseArray ==
  /\ ll.outcome = ""
  /\ \E a \in Chunks : \E acts \in ActionObjects(grammar) :
        \/ Parse([k |-> "array", a |-> a], FALSE, noActions)
        \/ Parse([k |-> "array", a |-> a], TRUE, acts)

\* parse(null)
ParseNull ==
  /\ ll.outcome = ""
  /\ Parse([k |-> "null", a |-> <<>>], FALSE, noActions)

\* the recursive descent parser of the EBNF grammar parses a string, with
\* actions or without: str is what scan() makes of the string, without
\* null; the stack parser has not been used yet
ParseLL ==
  /\ pc = "idle"
  /\ isEBNF(grammar)
  /\ ll.outcome = ""
  /\ outcome = ""
  /\ ~parsing
  /\ \E str \in SeqsUpTo(InputTuples(grammar) \ {nullTuple}, MaxInput) :
     \E acts \in ActionObjects(grammar) :
        ll' = IF expectError(grammar.ebnf) # ""
              THEN [notParsed EXCEPT !.input = str, !.actions = acts, !.errors = 1,
                                     !.outcome = "threw", !.cause = "requires expect()"]
              ELSE llParse(grammar.ebnf, str, acts)
  /\ UNCHANGED <<tableVars, errors, parserVars, pc>>

\* the stack parser parses the string which the recursive descent parser
\* has parsed, with the same actions: scan(input).concat(null)
ParseSame ==
  /\ ll.outcome # ""
  /\ outcome = ""
  /\ Parse([k |-> "array", a |-> Append(ll.input, nullTuple)],
           hasActions(ll.actions), ll.actions)

\* the grammar has '+' and Number
hasSum(G) ==
  /\ \E i \in 1 .. Len(G.lits) : G.lits[i] = "'+'"
  /\ \E i \in 1 .. Len(G.tokens) : G.tokens[i] = "Number"

\* what scan() makes of 1 + 2 + 3, with the end marker
Sum(G) ==
  LET plus   == Tuple(ordOf(G.lits, G.tokens, G.nts, "'+'"), "'+'")
      number == Tuple(ordOf(G.lits, G.tokens, G.nts, "Number"), "Number")
  IN <<number, plus, number, plus, number, nullTuple>>

\* parse('1 + 2 + 3') as the first call of a stack parser
ParseSum ==
  /\ ll.outcome = ""
  /\ outcome = ""
  /\ ~parsing
  /\ hasSum(grammar)
  /\ Parse([k |-> "array", a |-> Sum(grammar)], FALSE, noActions)

Next ==
  \/ Check
  \/ Advance
  \/ CheckEnd
  \/ ParseArray
  \/ ParseNull
  \/ ParseLL
  \/ ParseSame
  \/ ParseSum
  \/ Loop
  \/ Recover
  \/ Search

Spec == Init /\ [][Next]_vars

\* ------------------------------------------------------------------------
\* A stack parser which is also called with actions it cannot use.

\* parse(input, actions) as the first call of a parser, with actions
\* which are no object ("no methods") or a class the constructor of which
\* throws ("cannot create"): the part up to the exception
ParseRefused ==
  /\ pc = "idle"
  /\ ll.outcome = ""
  /\ ~parsing
  /\ outcome = ""
  /\ \E why \in {"no methods", "cannot create"} :
       /\ parsing' = TRUE
       /\ stack' = <<0>>
       /\ errors' = IF why = "cannot create" THEN 1 ELSE 0
       /\ outcome' = IF why = "cannot create" THEN "Error: parse cannot create actions"
                     ELSE "assertion error: parse()"
  /\ UNCHANGED <<building, values, input, current, tuples, index, actions, result, log,
                 arg, used, fed, pc>>
  /\ UNCHANGED <<tableVars, ll>>

InitReuse ==
  /\ grammar \in {Stmts}
  /\ Fresh
  /\ pc = "new"

NextReuse ==
  \/ Check
  \/ Advance
  \/ CheckEnd
  \/ ParseArray
  \/ ParseNull
  \/ ParseRefused
  \/ Loop
  \/ Recover
  \/ Search

ReuseSpec == InitReuse /\ [][NextReuse]_vars

\* ------------------------------------------------------------------------
\* Specification of the checks alone: a behaviour checks a BNF grammar of
\* the catalogue or one put together from a literal and two non-terminals,
\* or has expect() and check() work on an EBNF grammar for which no BNF
\* grammar is created.

\* s: a: rules with right-hand sides over 'x', s and a; s is the start
\*   0 $eof  1 'x'  2 $error  3 $accept  4 s  5 a
SmallRules == {<<n, r, -1>> : n \in {4, 5}, r \in SeqsUpTo({1, 4, 5}, MaxRhs)}

SmallBNF ==
  {BNF(<<"", "'x'">>, <<"">>, <<"", "s", "a">>, <<>>, rs, 4, defaultConfig) :
     rs \in {q \in SeqsUpTo(SmallRules, MaxRules) : q # <<>> /\ q[1][1] = 4}}

\* the sequences of the EBNF grammars:
\*   'x'    'x' 'y'    a 'x'    b 'x'    [ 'x' ] a    { 'x' } 'x'
\*   'y' [ 'x' ]    'x' b    [ 'x' | 'x' 'y' ] 'y'
SmallSeqs ==
  LET x == Lit("'x'")
      y == Lit("'y'")
  IN { <<x>>, <<x, y>>, <<NT("a"), x>>, <<NT("b"), x>>,
       <<Opt(<< <<x>> >>), NT("a")>>, <<Some(<< <<x>> >>), x>>,
       <<y, Opt(<< <<x>> >>)>>, <<x, NT("b")>>,
       <<Opt(<< <<x>>, <<x, y>> >>), y>> }

\* rules for a and b, the first one for a
SmallEBNF ==
  LET rules == {[nt |-> n, seqs |-> q] :
                  n \in {"a", "b"}, q \in SeqsUpTo(SmallSeqs, MaxAlts) \ {<<>>}}
  IN {[noEBNF EXCEPT !.lits = <<"'x'", "'y'">>, !.rules = rs] :
        rs \in {q \in SeqsUpTo(rules, MaxEBNF) : q # <<>> /\ q[1].nt = "a"}}

\* s: 'a' | 'a' 'b';
ABE ==
  [noEBNF EXCEPT
     !.lits  = <<"'a'", "'b'">>,
     !.rules = <<[nt |-> "s", seqs |-> << <<Lit("'a'")>>, <<Lit("'a'"), Lit("'b'")>> >>]>>]

\* an EBNF grammar by itself: Grammar.fromEBNF() has not been called
onlyEBNF(E) ==
  [BNF(<<"">>, <<"">>, <<"">>, <<>>, <<>>, 2, defaultConfig) EXCEPT !.ebnf = E]

InitChecks ==
  /\ grammar \in Grammars \cup SmallBNF
                 \cup {onlyEBNF(E) : E \in SmallEBNF \cup {XsE, ListE, AmbE, ABE}}
  /\ Fresh
  /\ pc = IF isEBNF(grammar) /\ nNts(grammar) = 1 THEN "ebnf" ELSE "new"

\* grammar.expect()
Expect ==
  /\ pc = "ebnf"
  /\ lookahead.called = ""
  /\ lookahead' = expectSets(grammar.ebnf)
  /\ UNCHANGED <<grammar, sets, reduced, states, sr, rr, s, errors, parserVars, ll, pc, scanner, factory, machine, other, model>>

\* grammar.check(), as the first call or once expect() has returned no error
CheckLL ==
  /\ pc = "ebnf"
  /\ \/ lookahead.called = ""
     \/ lookahead.called = "expect" /\ lookahead.returned = "" /\ ~lookahead.threw
  /\ lookahead' = checkSets(grammar.ebnf)
  /\ UNCHANGED <<grammar, sets, reduced, states, sr, rr, s, errors, parserVars, ll, pc, scanner, factory, machine, other, model>>

\* grammar.check() again, once a check() has computed all sets
CheckAgain ==
  /\ pc = "ebnf"
  /\ lookahead.called = "check" /\ lookahead.sets = "all" /\ ~lookahead.again
  /\ lookahead' = checkAgain(grammar.ebnf, lookahead)
  /\ UNCHANGED <<grammar, sets, reduced, states, sr, rr, s, errors, parserVars, ll, pc, scanner, factory, machine, other, model>>

NextChecks ==
  \/ Check
  \/ Advance
  \/ CheckEnd
  \/ Expect
  \/ CheckLL
  \/ CheckAgain

CheckSpec == InitChecks /\ [][NextChecks]_vars

\* check() by itself for the grammars of the catalogue and the small
\* grammars with up to two rules. It runs on: the loop over the states is
\* a for statement, and nothing else is in its way. Each step of check()
\* changes pc or s, and the steps are weakly fair: if check() stays in
\* its analysis or its loop, a step is taken again and again.
InitAdvance ==
  /\ grammar \in Grammars \cup {G \in SmallBNF : Len(G.rules) <= 3}
  /\ Fresh
  /\ pc = "new"

NextAdvance ==
  \/ Check
  \/ Advance
  \/ CheckEnd

running == pc \in {"new", "advance"}

AdvanceSpec ==
  InitAdvance /\ [][NextAdvance]_vars
    /\ ([]<>(~running) \/ []<><<pc' # pc \/ s' # s>>_vars)

\* ------------------------------------------------------------------------
\* scan(input) of a scanner by itself, one round of its loop at a time.

InitScan ==
  /\ grammar \in {Stmts}
  /\ Fresh
  /\ pc = "scanner"

Others == <<grammar, sets, reduced, states, sr, rr, s, errors, parserVars, ll, pc, lookahead>>

\* scanner.scan(input)
ScanCall ==
  /\ pc = "scanner"
  /\ scanner.pc = ""
  /\ scanner' \in Scanners
  /\ UNCHANGED <<Others, factory, machine, other, model>>

\* the loop of scan(): one round
ScanRound ==
  /\ scanner.pc = "scan"
  /\ scanner.lastIndex < Len(scanner.input)
  /\ scanner' = scanRound(scanner)
  /\ UNCHANGED <<Others, factory, machine, other, model>>

\* the loop of scan() is done: return result
ScanReturn ==
  /\ scanner.pc = "scan"
  /\ scanner.lastIndex >= Len(scanner.input)
  /\ scanner' = [scanner EXCEPT !.pc = "done"]
  /\ UNCHANGED <<Others, factory, machine, other, model>>

NextScan ==
  \/ ScanCall
  \/ ScanRound
  \/ ScanReturn

ScanSpec == InitScan /\ [][NextScan]_vars

\* ------------------------------------------------------------------------
\* The factory methods of a grammar by themselves, call after call.

InitFactory ==
  /\ grammar \in {Stmts}
  /\ Fresh
  /\ pc = "factory"

\* grammar.lit(literal)
LitCall ==
  /\ pc = "factory"
  /\ factory.calls < MaxCalls
  /\ \E literal \in LitNames :
       factory' = lit(called(factory, "lit", <<literal>>), literal)
  /\ UNCHANGED <<Others, scanner, machine, other, model>>

\* grammar.token(name, pat)
TokenCall ==
  /\ pc = "factory"
  /\ factory.calls < MaxCalls
  /\ \E name \in Names :
       factory' = token(called(factory, "token", <<name>>), name)
  /\ UNCHANGED <<Others, scanner, machine, other, model>>

\* grammar.nt(name)
NTCall ==
  /\ pc = "factory"
  /\ factory.calls < MaxCalls
  /\ \E name \in Names :
       factory' = ntSymbol(called(factory, "nt", <<name>>), name)
  /\ UNCHANGED <<Others, scanner, machine, other, model>>

\* grammar.precedence(assoc, terminals) with terminals of this grammar
PrecedenceCall ==
  /\ pc = "factory"
  /\ factory.calls < MaxCalls
  /\ \E assoc \in Assocs, terminals \in SeqsUpTo(created(factory), 2) :
       factory' = precedence(called(factory, "precedence", terminals), assoc, terminals)
  /\ UNCHANGED <<Others, scanner, machine, other, model>>

NextFactory ==
  \/ LitCall
  \/ TokenCall
  \/ NTCall
  \/ PrecedenceCall

FactorySpec == InitFactory /\ [][NextFactory]_vars

\* ------------------------------------------------------------------------
\* Grammar.fromEBNF() by itself, for an EBNF grammar which represents
\* well: few rules with few alternatives.

LowerEBNF ==
  {XsE, ListE, AmbE, ABE} \cup
  {E \in SmallEBNF : Len(E.rules) = 1 \/ \A i \in 1 .. Len(E.rules) : Len(E.rules[i].seqs) = 1}

InitLower ==
  /\ grammar \in {onlyEBNF(E) : E \in LowerEBNF}
  /\ Fresh
  /\ pc = "ebnf"

\* Grammar.fromEBNF(ebnf, config) up to g.check(start), which follows
FromEBNF ==
  /\ pc = "ebnf"
  /\ \E withError \in BOOLEAN :
       grammar' = fromEBNF(grammar.ebnf, [defaultConfig EXCEPT !.error = withError])
  /\ sets' = EmptySets(grammar')
  /\ pc' = "new"
  /\ UNCHANGED <<reduced, states, sr, rr, s, errors>>
  /\ UNCHANGED <<parserVars, ll, lookahead, scanner, factory, machine, other, model>>

NextLower ==
  \/ FromEBNF
  \/ Check
  \/ Advance
  \/ CheckEnd

LowerSpec == InitLower /\ [][NextLower]_vars

\* ------------------------------------------------------------------------
\* Two stack parsers of one grammar, each fed with arrays of tuples call
\* after call. The calls of the other parser happen between the calls of a
\* recognition of this parser, and this parser starts no recognition once
\* the other parser was used.

\* the errors which this parser has reported in its recognition
ownErrors == Cardinality({i \in 1 .. Len(log) : log[i].verb = "error" /\ log[i].info # -1})

InitShared ==
  /\ grammar \in {Stmts}
  /\ Fresh
  /\ pc = "new"

\* parse(input) of this parser with an array
ParseChunk ==
  /\ other.calls = 0 \/ parsing
  /\ \E a \in Chunks : Parse([k |-> "array", a |-> a], FALSE, noActions)

\* parse(input) of the other parser with an array, in which it reports e
\* errors and after which it wants more input or not; before its first
\* call here it may have been fed already
OtherParse ==
  /\ pc = "idle"
  /\ parsing
  /\ other.calls < MaxOther
  /\ \E e \in 0 .. 1, more \in BOOLEAN, fedBefore \in BOOLEAN :
       LET start == IF other.calls = 0 THEN ~fedBefore ELSE ~other.parsing
       IN /\ errors' = IF start THEN e ELSE errors + e
          /\ other' = [parsing |-> more, calls |-> other.calls + 1,
                       started |-> other.started \/ start,
                       since |-> IF start THEN ownErrors ELSE other.since,
                       e |-> IF start THEN e ELSE other.e + e]
  /\ UNCHANGED <<grammar, sets, reduced, states, sr, rr, s, parserVars, ll, pc,
                 lookahead, scanner, factory, machine, model>>

NextShared ==
  \/ Check
  \/ Advance
  \/ CheckEnd
  \/ ParseChunk
  \/ Loop
  \/ Recover
  \/ Search
  \/ OtherParse

SharedSpec == InitShared /\ [][NextShared]_vars

\* ------------------------------------------------------------------------
\* The practice model by itself, event after event as the script sends
\* them.

Rest == <<Others, scanner, factory, machine, other>>

InitPractice ==
  /\ grammar \in {Stmts}
  /\ Fresh
  /\ pc = "practice"

\* ebnf, stack, bnf: model.mode = word
SetMode ==
  /\ pc = "practice"
  /\ \E value \in Modes :
       model' = event(model, mode(model, value), "mode", value = model.mode, FALSE)
  /\ UNCHANGED Rest

\* greedy, error, ..., states: toggle a flag
Toggle ==
  /\ pc = "practice"
  /\ \E name \in Flags :
       /\ model.flags[name] \/ Cardinality({f \in Flags : model.flags[f]}) < MaxFlags
       /\ model' = event(model, toggle(model, name), "toggle", FALSE, FALSE)
  /\ UNCHANGED Rest

\* a path: the texts of an example are assigned
Text ==
  /\ pc = "practice"
  /\ \/ model' = event(model, grammarText(model), "grammar", FALSE, FALSE)
     \/ model' = event(model, programText(model), "program", FALSE, FALSE)
  /\ UNCHANGED Rest

\* new
DoNew ==
  /\ pc = "practice"
  /\ \E made \in {"null", "Grammar"} :
       model' = event(model, doNew(model, made), "doNew", FALSE, FALSE)
  /\ UNCHANGED Rest

\* parse
DoParse ==
  /\ pc = "practice"
  /\ \E returned \in {"null", "run()", "run(memory, steps)"} :
       model' = event(model, doParse(model, returned), "doParse", FALSE, FALSE)
  /\ UNCHANGED Rest

\* run
DoRun ==
  /\ pc = "practice"
  /\ model' = event(model, doRun(model), "doRun", FALSE, FALSE)
  /\ UNCHANGED Rest

\* 1, 10, 100
DoStep ==
  /\ pc = "practice"
  /\ \E continue \in BOOLEAN : model' = doStep(model, continue)
  /\ UNCHANGED Rest

NextPractice ==
  \/ SetMode
  \/ Toggle
  \/ Text
  \/ DoNew
  \/ DoParse
  \/ DoRun
  \/ DoStep

PracticeSpec == InitPractice /\ [][NextPractice]_vars

\* ------------------------------------------------------------------------
\* A scanner is created for the symbols of a factory and scans a string.

InitBuild ==
  /\ grammar \in {Stmts}
  /\ Fresh
  /\ pc = "build"

\* new Scanner(factory, skip)
Construct ==
  /\ pc = "build"
  /\ scanner.pc = ""
  /\ \E lits \in SeqsUpTo(FactoryLits, MaxSymbols), tokens \in SeqsUpTo(FactoryTokens, MaxSymbols - 1) :
       /\ distinct(lits) /\ distinct(tokens)
       /\ scanner' = construct(lits, tokens, {" "})
  /\ UNCHANGED <<Others, factory, machine, other, model>>

\* scanner.scan(input) up to the loop
Scan ==
  /\ scanner.pc = "new"
  /\ \E text \in SeqsUpTo({"a", "b", " "}, MaxSymbols) :
       scanner' = [scanner EXCEPT !.input = text, !.pc = "scan"]
  /\ UNCHANGED <<Others, factory, machine, other, model>>

NextBuild ==
  \/ Construct
  \/ Scan
  \/ ScanRound
  \/ ScanReturn

BuildSpec == InitBuild /\ [][NextBuild]_vars

\* ------------------------------------------------------------------------
\* The machine with frames (07.js, Machine04 and Machine06). M has the
\* memory with its properties pc and fp and the list frames; the slots
\* hold numbers. The rest of M is kept for the proofs: ret is the address
\* behind the last Call, calls has for each function which is entered and
\* not left what there was at its Entry, left has this for the function
\* which Exit has left last, at is "called" behind Call, "exited" behind
\* Exit, "returned" behind Return and "run" else.

MaxFrame == 9
MaxParms == 1
MaxLocals == 1
MaxDepth == 2

\* memory[addr] as a number, -1 if it is undefined
slot(memory, addr) ==
  IF addr >= 0 /\ addr < Len(memory) /\ memory[addr + 1][1] = "number"
  THEN memory[addr + 1][2] ELSE -1

Machine06 ==
  [memory |-> <<>>, pc |-> 0, fp |-> 0, frames |-> <<0>>,
   ret |-> 0, calls |-> <<>>, left |-> <<>>, at |-> "run", executed |-> 0]

\* this.code[memory.pc ++]
fetch(M) == [M EXCEPT !.pc = @ + 1, !.executed = @ + 1]

Call(M, addr) == [M EXCEPT !.memory = Append(@, numeric(M.pc)), !.pc = addr]

\* variant of Entry: the frame begins behind the first argument
Entry_late(M, parms, size) ==
  [M EXCEPT !.memory = @ \o <<numeric(M.fp), numeric(0)>>
                         \o [i \in 1 .. size - parms - 3 |-> numeric(0)],
            !.fp = Len(M.memory) - parms,
            !.frames = <<parms>> \o @]

Entry(M, parms, size) ==
  [M EXCEPT !.memory = @ \o <<numeric(M.fp), numeric(0)>>
                         \o [i \in 1 .. size - parms - 3 |-> numeric(0)],
            !.fp = Len(M.memory) - parms - 1,
            !.frames = <<parms>> \o @]

Exit(M, parms) ==
  [M EXCEPT !.fp = slot(M.memory, M.fp + parms + 1),
            !.memory = SubSeq(@, 1, M.fp)
                         \o <<IF M.fp + parms + 2 < Len(@) THEN @[M.fp + parms + 3] ELSE undefined,
                              IF M.fp + parms < Len(@) THEN @[M.fp + parms + 1] ELSE undefined>>,
            !.frames = Tail(@)]

LoadFP(M, addr) ==
  [M EXCEPT !.memory = Append(@, IF M.fp + addr < Len(@) THEN @[M.fp + addr + 1] ELSE undefined)]

StoreFP(M, addr) == [M EXCEPT !.memory = assign(@, M.fp + addr, last(@, 1))]

\* Return of Machine04
Return04(M) == [M EXCEPT !.pc = slot(M.memory, Len(M.memory) - 1),
                         !.memory = splice(@, 1, <<>>)]

\* the addresses of the variables of a function: parameters, result, local
\* variables
variables(parms, size) == (0 .. parms - 1) \cup (parms + 2 .. size - 1)

\* the length of the memory below which the code of a function does not pop
floor(M) == IF M.calls = <<>> THEN 0 ELSE Head(M.calls).length

\* ------------------------------------------------------------------------
\* A machine with frames executes instructions, one per step: code which
\* pushes values, calls functions with arguments, and in a function loads
\* and stores its variables and leaves the values below its own alone.

InitFrame ==
  /\ grammar \in {Stmts}
  /\ Fresh
  /\ pc = "frames"

\* new Memory of the machine: fp = 0, frames = [ 0 ]
FrameNew ==
  /\ pc = "frames"
  /\ machine = noMachine
  /\ machine' = Machine06
  /\ UNCHANGED <<Others, scanner, factory, other, model>>

running06 == pc = "frames" /\ "fp" \in DOMAIN machine /\ machine.executed < MaxFrame

\* Push, Pop, LoadFP or StoreFP
FrameBody ==
  /\ running06
  /\ machine.at \in {"run", "returned"}
  /\ \/ \E n \in {1, 2} : machine' = [Push(fetch(machine), n) EXCEPT !.at = "run"]
     \/ /\ Len(machine.memory) > floor(machine)
        /\ machine' = [Pop(fetch(machine)) EXCEPT !.at = "run"]
     \/ /\ machine.calls # <<>>
        /\ \E addr \in variables(Head(machine.calls).parms, Head(machine.calls).size) :
             \/ machine' = [LoadFP(fetch(machine), addr) EXCEPT !.at = "run"]
             \/ /\ Len(machine.memory) > floor(machine)
                /\ machine' = [StoreFP(fetch(machine), addr) EXCEPT !.at = "run"]
  /\ UNCHANGED <<Others, scanner, factory, other, model>>

\* Call addr
FrameCall ==
  /\ running06
  /\ machine.at \in {"run", "returned"}
  /\ Len(machine.calls) < MaxDepth
  /\ \E addr \in {20, 40} :
       machine' = [Call(fetch(machine), addr) EXCEPT !.at = "called", !.ret = machine.pc + 1]
  /\ UNCHANGED <<Others, scanner, factory, other, model>>

\* Entry parms size as the first instruction of a function: the arguments
\* are values which the caller has pushed
FrameEntry ==
  /\ running06
  /\ machine.at = "called"
  /\ \E parms \in 0 .. MaxParms, locals \in 0 .. MaxLocals :
       /\ Len(machine.memory) - 1 - parms >= floor(machine)
       /\ machine' =
            [Entry(fetch(machine), parms, parms + 3 + locals) EXCEPT
               !.at = "run",
               !.calls = <<[fp |-> machine.fp, parms |-> parms, size |-> parms + 3 + locals,
                            below |-> SubSeq(machine.memory, 1, Len(machine.memory) - 1 - parms),
                            ret |-> machine.ret,
                            length |-> Len(machine.memory) + 2 + locals]>> \o @]
  /\ UNCHANGED <<Others, scanner, factory, other, model>>

\* Exit parms, once the function has popped what it has pushed
FrameExit ==
  /\ running06
  /\ machine.at \in {"run", "returned"}
  /\ machine.calls # <<>>
  /\ Len(machine.memory) = Head(machine.calls).length
  /\ machine' =
       [Exit(fetch(machine), Head(machine.calls).parms) EXCEPT
          !.at = "exited",
          !.calls = Tail(@),
          !.left = <<Head(machine.calls)
                      @@ [result |-> machine.memory[Len(Head(machine.calls).below)
                                                     + Head(machine.calls).parms + 3]]>>]
  /\ UNCHANGED <<Others, scanner, factory, other, model>>

\* Return
FrameReturn ==
  /\ running06
  /\ machine.at = "exited"
  /\ machine' = [Return04(fetch(machine)) EXCEPT !.at = "returned"]
  /\ UNCHANGED <<Others, scanner, factory, other, model>>

NextFrame ==
  \/ FrameNew
  \/ FrameBody
  \/ FrameCall
  \/ FrameEntry
  \/ FrameExit
  \/ FrameReturn

FrameSpec == InitFrame /\ [][NextFrame]_vars

\* ------------------------------------------------------------------------
\* The executable of a stack machine by itself: it is started and then
\* resumed with the memory which it has returned.

InitMachine ==
  /\ grammar \in {Stmts}
  /\ Fresh
  /\ pc = "machine"

\* run = machine.run(size); run(null, steps) or run()
Start ==
  /\ pc = "machine"
  /\ machine.at = ""
  /\ \E code \in Programs, size \in {0, 1}, steps \in Budgets \cup {undefined} :
       machine' = enter(Machine11(code, size), TRUE, steps)
  /\ UNCHANGED <<Others, scanner, factory, other, model>>

\* run(memory, steps) with the memory returned before
Resume ==
  /\ machine.at = "returned"
  /\ Len(machine.budgets) < MaxRuns
  /\ \E steps \in Budgets \cup {undefined} :
       machine' = enter(machine, FALSE, steps)
  /\ UNCHANGED <<Others, scanner, factory, other, model>>

\* one round of the loop
Execute ==
  /\ machine.at = "run"
  /\ again(machine)
  /\ machine.executed < MaxExec
  /\ machine' = body(machine)
  /\ UNCHANGED <<Others, scanner, factory, other, model>>

\* the loop ends: return memory
Return ==
  /\ machine.at = "run"
  /\ ~again(machine)
  /\ machine' = return(machine)
  /\ UNCHANGED <<Others, scanner, factory, other, model>>

NextMachine ==
  \/ Start
  \/ Resume
  \/ Execute
  \/ Return

MachineSpec == InitMachine /\ [][NextMachine]_vars

\* ------------------------------------------------------------------------
\* Vocabulary of the properties.

Front(q) == SubSeq(q, 1, Len(q) - 1)

\* check() has completed and left tables
checked == pc \in {"idle", "loop", "recover", "search"}

\* a parse() call is between its try and its catch
inCall == pc \in {"loop", "recover", "search"}

\* this step is the catch clause of parse()
callEnds == inCall /\ pc' = "idle"

\* this step is a parse() call which continues a recognition
callContinues == pc = "idle" /\ pc' = "loop" /\ parsing

\* an array without a null element
noEndMarker(a) == a.k = "array" /\ \A i \in 1 .. Len(a.a) : a.a[i] # nullTuple

\* the messages which this step has sent to observe()
sent == SubSeq(log', Len(log) + 1, Len(log'))

\* the number of 'error' messages with a text which this step has sent
reported ==
  Cardinality({i \in 1 .. Len(sent) : sent[i].verb = "error" /\ sent[i].info # -1})

isShift(G, m)      == m.verb = "shift" /\ m.t # error(G)
isErrorShift(G, m) == m.verb = "shift" /\ m.t = error(G)

\* the last 'error' message with a text in l, 0 if there is none
lastError(l) ==
  LET E == {i \in 1 .. Len(l) : l[i].verb = "error" /\ l[i].info # -1}
  IN IF E = {} THEN 0 ELSE CHOOSE i \in E : \A j \in E : j <= i

\* since the last reported error, if any, $error was shifted and after it
\* an input tuple
recovered(l) ==
  \/ lastError(l) = 0
  \/ \E i \in lastError(l) + 1 .. Len(l) :
        /\ isErrorShift(grammar, l[i])
        /\ \E j \in i + 1 .. Len(l) : isShift(grammar, l[j])

\* the rule has a reduce entry in some state
hasReduce(r) ==
  \E i \in 1 .. Len(states) : \E t \in DOMAIN states[i].messages :
     states[i].messages[t] = reduce(r)

acceptInstalled ==
  \E i \in 1 .. Len(states) : \E t \in DOMAIN states[i].messages :
     states[i].messages[t] = accept

\* ------------------------------------------------------------------------
\* C1

\* parse() given an array without end marker, of which every tuple has
\* been consumed when the call ends, ends by asking for more: the error
\* count is what was reported, the parser stays parsing with its stack;
\* and the next parse() call continues with stack, values, and count.
needMore(nonEmpty) ==
  /\ (callEnds /\ noEndMarker(arg) /\ (nonEmpty => arg.a # <<>>) /\ used' = Len(arg.a)
        => /\ outcome' = "true"
           /\ parsing'
           /\ stack' # <<>>
           /\ errors' = errors + reported)
  /\ (callContinues /\ pc' = "loop"
        => UNCHANGED <<parsing, stack, values, errors, building, actions, log>>)

\* C1 as claimed: for every array without a null element, C1_AsClaimed
\* states that the call ends by asking for more once all is consumed.
C1_AsClaimed == [][needMore(FALSE)]_vars

\* C1 amended: for every array with at least one tuple and no null element,
\* once every tuple is consumed the call ends by throwing true, without
\* counting an error, parser still parsing, stacks kept for the next call.
C1_NeedMore == [][needMore(TRUE)]_vars

C1_Witness ==
  /\ pc = "idle" /\ outcome = "true" /\ parsing
  /\ noEndMarker(arg) /\ arg.a # <<>> /\ used = Len(arg.a)
  /\ Len(stack) > 1 /\ errors > 0

\* ------------------------------------------------------------------------
\* C2

\* the two parsers have parsed the same input with the same actions
compared == pc = "idle" /\ ll.outcome # "" /\ outcome # ""

\* the EBNF grammar passes check()
llChecked == isEBNF(grammar) /\ checkError(grammar.ebnf) = ""

\* the input has no illegal character
legal(str) == \A i \in 1 .. Len(str) : str[i] # illegal

\* C2 as claimed: for an EBNF grammar which passes check(), C2_AsClaimed
\* states that the recursive descent parser and the stack parser of
\* fromEBNF(), given the same input and actions, both fail or both return
\* equal values.
C2_AsClaimed ==
  compared /\ llChecked
    => /\ (ll.outcome = "result") = (outcome = "result")
       /\ (ll.outcome = "result" => ll.value = result)

\* C2 amended: for an EBNF grammar which passes check(), given the same
\* input and actions, one parser returns a value without reporting an error
\* exactly if the other one does, and then the values are equal; and if
\* the input has no illegal character, whatever the recursive descent
\* parser returns the stack parser returns too, with equal error counts.
C2_Same ==
  compared /\ llChecked
    => /\ (ll.outcome = "result" /\ ll.errors = 0) = (outcome = "result" /\ errors = 0)
       /\ (ll.outcome = "result" /\ ll.errors = 0 => ll.value = result)
       /\ (ll.outcome = "result" /\ legal(ll.input)
             => outcome = "result" /\ result = ll.value /\ errors = ll.errors)

\* 'x' 'x' 'y' for s: { 'x' } [ 'y' ]; both return [ [ [ 'x' ], [ 'x' ] ], [ 'y' ] ]
C2_Witness ==
  /\ compared /\ llChecked
  /\ grammar.ebnf = XsE /\ ~hasActions(ll.actions)
  /\ ll.outcome = "result" /\ outcome = "result" /\ errors = 0
  /\ result = List(<<List(<<List(<<Str("'x'")>>), List(<<Str("'x'")>>)>>),
                     List(<<Str("'y'")>>)>>)

\* ------------------------------------------------------------------------
\* C3

\* a tuple which is skipped leaves both stacks alone
discards ==
  used' > used /\ (\A i \in 1 .. Len(sent) : sent[i].verb # "shift")
     => UNCHANGED <<stack, values>>

\* C3 as claimed: whenever the loop of parse() is about to run after an
\* error, $error and then an input tuple have been shifted since, and the
\* tuples skipped were never shifted or pushed.
C3_AsClaimed == [][(pc' = "loop" => recovered(log')) /\ discards]_vars

\* C3 amended: recover() returns to the loop of parse() only after it has
\* shifted $error and then an input tuple, discarding what it skips; the
\* loop runs without that only if a parse() call ended for lack of input
\* during recovery and the next call continues the recognition.
C3_Recovery ==
  [][ /\ (pc \in {"recover", "search"} /\ pc' = "loop"
            => recovered(log') /\ isShift(grammar, log'[Len(log')]))
      /\ (pc' = "loop" /\ ~recovered(log')
            => \/ callContinues
               \/ pc = "loop" /\ ~recovered(log))
      /\ discards ]_vars

C3_Witness ==
  /\ pc = "loop" /\ lastError(log) > 0 /\ recovered(log)
  /\ fed = Len(arg.a)
  /\ used > Cardinality({i \in 1 .. Len(log) : isShift(grammar, log[i])})

\* ------------------------------------------------------------------------
\* C4

\* C4: every 'error' message without text which recover() sends goes with
\* popping one state, and one value if the parser builds; at an empty stack
\* the call throws 'irrecoverable error' and the parser stops parsing.
C4_Pop ==
  [][ /\ (pc = "recover" /\ stack # <<>> /\ error(grammar) \notin DOMAIN topState(snapshot).messages
            => /\ stack' = Front(stack)
               /\ building => values' = Front(values)
               /\ pc' = "recover" /\ parsing' /\ errors' = errors)
      /\ (pc = "recover" /\ stack = <<>>
            => outcome' = "irrecoverable error" /\ ~parsing' /\ pc' = "idle"
               /\ result' = Null) ]_vars

C4_Witness ==
  /\ pc = "idle" /\ outcome = "irrecoverable error" /\ ~parsing
  /\ stack = <<>> /\ building /\ values = <<>>
  /\ \E i \in 1 .. Len(log) : log[i].verb = "error" /\ log[i].info = -1

\* ------------------------------------------------------------------------
\* C5

\* this step of the stack parser reduces by a rule for which the actions
\* have a method
actionReduce ==
  /\ pc \in {"loop", "recover", "search"} /\ building
  /\ sent # <<>> /\ sent[1].verb = "reduce"
  /\ ntName(grammar, Rule(grammar, sent[1].info).nt) \in actions.names

C5_StackParser ==
  [][ /\ (actionReduce /\ actions.does = "string"
            => /\ pc' # "idle"
               /\ errors' - errors \in {1, 2}
               /\ (actions.length = 0 => errors' = errors + 1))
      /\ (actionReduce /\ pc' = "idle" /\ outcome' # "result" => actions.does = "Error")
    ]_vars

\* ------------------------------------------------------------------------
\* C6

validTop == stack # <<>> /\ stack[Len(stack)] \in 0 .. Len(states) - 1

\* C6 as claimed: in every state of a parse the state stack is not empty
\* and its top is a state of the table.
C6_AsClaimed == (inCall \/ parsing) => validTop

\* C6 amended: the state stack is not empty and its top is a state of the
\* table in every state of a parse, but for recover() once it has popped
\* the last state, just before it throws 'irrecoverable error'.
C6_Stack == (inCall \/ parsing) /\ ~(pc = "recover" /\ stack = <<>>) => validTop

C6_Witness == pc = "recover" /\ Len(stack) = 1 /\ Len(log) > 2

\* ------------------------------------------------------------------------
\* C7

\* C7: while a recognition which builds goes on, the value stack is as
\* long as the state stack.
C7_Parallel == parsing /\ building => Len(values) = Len(stack)

C7_Witness ==
  /\ parsing /\ building /\ Len(stack) > 2
  /\ \E i \in 1 .. Len(log) : log[i].verb = "goto"

\* ------------------------------------------------------------------------
\* C8

\* C8: no reduce pops more states than there are, empties the stack, or
\* uncovers a state without a goto for the rule's non-terminal.
C8_Goto ==
  outcome \notin {"RangeError", "TypeError", "assertion error: process()",
                  "fatal error: process()"}

C8_Witness ==
  /\ pc = "search"
  /\ \E i \in 1 .. Len(log) : log[i].verb = "reduce" /\ log[i].t = error(grammar)
  /\ \E i \in 1 .. Len(log) : log[i].verb = "goto" /\ log[i].t = error(grammar)

\* ------------------------------------------------------------------------
\* C9

afterDot(S) ==
  {nextSymbol(grammar, S.marks[i]) :
     i \in {j \in 1 .. Len(S.marks) : ~complete(grammar, S.marks[j])}}

\* a terminal of a %nonassoc level which can follow a complete rule of the
\* state with a precedence of the same level
nonassoc(S, t) ==
  /\ isT(grammar, t)
  /\ prec(grammar, t).assoc = "%nonassoc"
  /\ \E i \in 1 .. Len(S.marks) :
        /\ complete(grammar, S.marks[i])
        /\ t \in sets.ntFollow[Rule(grammar, S.marks[i].rule).nt]
        /\ hasPrec(grammar, S.marks[i].rule)
        /\ rulePrec(grammar, S.marks[i].rule).level = prec(grammar, t).level

\* C9 as claimed: after check(), in every state every symbol after the dot
\* of a mark has an entry in the state's messages.
C9_AsClaimed ==
  checked => \A i \in 1 .. Len(states) : afterDot(states[i]) \subseteq DOMAIN states[i].messages

\* C9 amended: after check(), in every state every symbol after the dot of
\* a mark has an entry which is a message, except a %nonassoc terminal
\* which can follow a complete rule of the state of the same precedence
\* level: it has no entry.
C9_Entries ==
  checked => \A i \in 1 .. Len(states) : \A a \in afterDot(states[i]) :
     IF a \in DOMAIN states[i].messages
     THEN states[i].messages[a].verb \in {"accept", "shift", "goto", "reduce"}
     ELSE nonassoc(states[i], a)

C9_Witness ==
  /\ checked
  /\ \E i \in 1 .. Len(states) : \E a \in afterDot(states[i]) :
        a \notin DOMAIN states[i].messages
  /\ \E i \in 1 .. Len(states) : \E a \in afterDot(states[i]) :
        a \in DOMAIN states[i].messages /\ states[i].messages[a].verb = "goto"

\* ------------------------------------------------------------------------
\* C10

\* C10 as claimed: after check() a rule is flagged as reduced if and only
\* if some state has a reduce entry for it, or it is rule zero and accept
\* was installed.
C10_AsClaimed ==
  checked => \A r \in RuleIndexes(grammar) :
     r \in reduced <=> (hasReduce(r) \/ (r = 0 /\ acceptInstalled))

\* ------------------------------------------------------------------------
\* C11

\* the complete marks of S for a rule which t can follow
reducing(S, t) ==
  {i \in 1 .. Len(S.marks) :
     /\ complete(grammar, S.marks[i])
     /\ t \in sets.ntFollow[Rule(grammar, S.marks[i].rule).nt]}

\* how the precedences of rule r and terminal t decide between the reduce
\* and the shift, "conflict" if one of them has none
resolution(r, t) ==
  IF hasPrec(grammar, r) /\ prec(grammar, t).assoc # ""
  THEN IF rulePrec(grammar, r).level > prec(grammar, t).level THEN "reduce"
       ELSE IF rulePrec(grammar, r).level < prec(grammar, t).level THEN "shift"
       ELSE IF prec(grammar, t).assoc = "%left" THEN "reduce"
       ELSE IF prec(grammar, t).assoc = "%right" THEN "shift"
       ELSE "none"
  ELSE "conflict"

\* the entry of state S for terminal t is the shift (accept for $eof)
shifts(S, t) ==
  /\ t \in DOMAIN S.messages
  /\ S.messages[t].verb = IF t = eof THEN "accept" ELSE "shift"

\* the shift/reduce conflicts of S: a complete mark and a terminal after
\* the dot which can follow its rule, one of them without precedence, and
\* no earlier mark has replaced or deleted the entry of the terminal
conflicts(S) ==
  {p \in (1 .. Len(S.marks)) \X (Terminals(grammar) \cap afterDot(S)) :
     /\ p[1] \in reducing(S, p[2])
     /\ resolution(S.marks[p[1]].rule, p[2]) = "conflict"
     /\ \A j \in reducing(S, p[2]) :
           j < p[1] => resolution(S.marks[j].rule, p[2]) \in {"shift", "conflict"}}

\* a rule  x: x '+' x
isSumRule(r) ==
  /\ Len(Rule(grammar, r).symbols) = 3
  /\ Rule(grammar, r).symbols[2] = ordOf(grammar.lits, grammar.tokens, grammar.nts, "'+'")

\* the lookaheads at which l reports a reduce of a rule  x: x '+' x
sumReducedAt(l) ==
  {l[i].t : i \in {j \in 1 .. Len(l) : l[j].verb = "reduce" /\ isSumRule(l[j].info)}}

contested(S) ==
  {t \in Terminals(grammar) \ afterDot(S) : Cardinality(reducing(S, t)) > 1}

\* the complete marks which find the reduce of another mark in the entry
\* of their terminal
late(S) ==
  {p \in (Terminals(grammar) \ afterDot(S)) \X (1 .. Len(S.marks)) :
     p[2] \in reducing(S, p[1]) /\ \E j \in reducing(S, p[1]) : j < p[2]}

\* no terminal with a shift is claimed by more than one complete mark and
\* decided by precedences
quiet(S) ==
  \A t \in Terminals(grammar) \cap afterDot(S) :
     Cardinality(reducing(S, t)) > 1 =>
       \A i \in reducing(S, t) : resolution(S.marks[i].rule, t) \in {"shift", "conflict"}

\* C12: advance() of a state leaves for every terminal without a shift for
\* which complete marks call for a reduce the reduce of the rule with the
\* smallest index among them, wherever its mark is in the state, and
\* counts one reduce/reduce conflict for each of these marks but the first.
C12_Earlier ==
  [][(pc = "advance" /\ s' = s + 1) =>
       LET S == states'[s + 1]
       IN /\ \A t \in Terminals(grammar) \ afterDot(S) :
                reducing(S, t) # {} =>
                  /\ t \in DOMAIN S.messages
                  /\ S.messages[t].verb = "reduce"
                  /\ \E i \in reducing(S, t) : S.messages[t].info = S.marks[i].rule
                  /\ \A i \in reducing(S, t) : S.messages[t].info <= S.marks[i].rule
          /\ quiet(S) => rr' = rr + Cardinality(late(S))
    ]_vars

\* a state in which the mark of the rule which is reduced comes after the
\* mark of a rule with a larger index
C12_Witness ==
  /\ pc = "idle"
  /\ rr > 0
  /\ \E n \in 1 .. Len(states) : \E t \in contested(states[n]) :
       \E i, j \in reducing(states[n], t) :
          /\ i < j
          /\ states[n].marks[j].rule < states[n].marks[i].rule
          /\ states[n].messages[t] = reduce(states[n].marks[j].rule)

\* ------------------------------------------------------------------------
\* C13

\* the core of a state and all its marks, as sets
coreOf(S)  == {S.marks[i] : i \in 1 .. S.core}
marksOf(S) == {S.marks[i] : i \in 1 .. Len(S.marks)}

\* the marks of S before symbol X, moved over X
over(S, X) ==
  {markAdvance(m) : m \in {q \in marksOf(S) : ~complete(grammar, q) /\ nextSymbol(grammar, q) = X}}

\* for each mark before a non-terminal S has a mark at the start of each
\* rule of the non-terminal
closed(S) ==
  \A m \in marksOf(S) :
     ~complete(grammar, m) /\ isNT(grammar, nextSymbol(grammar, m)) =>
       \A r \in RuleIndexes(grammar) :
          Rule(grammar, r).nt = nextSymbol(grammar, m) => mark(r, 0) \in marksOf(S)

\* C13: after check() the core of states[0] is rule zero at position 0, no
\* two states have the same core, no state has a mark twice, every state is
\* closed, and every shift or goto of a state for a symbol leads to the
\* state with just the marks before the symbol, moved over it, as core.
C13_Collection ==
  pc = "idle" =>
    /\ states[1].core = 1 /\ states[1].marks[1] = mark(0, 0)
    /\ \A i, j \in 1 .. Len(states) : coreOf(states[i]) = coreOf(states[j]) => i = j
    /\ \A i \in 1 .. Len(states) :
         /\ Cardinality(marksOf(states[i])) = Len(states[i].marks)
         /\ closed(states[i])
         /\ \A X \in DOMAIN states[i].messages :
              states[i].messages[X].verb \in {"shift", "goto"} =>
                /\ states[i].messages[X].info \in 0 .. Len(states) - 1
                /\ coreOf(states[states[i].messages[X].info + 1]) = over(states[i], X)

\* tables in which a state is the target of entries of two states and has
\* marks which the closure has added
C13_Witness ==
  /\ pc = "idle"
  /\ \E i, j \in 1 .. Len(states) : \E X \in DOMAIN states[i].messages \cap DOMAIN states[j].messages :
        /\ i # j
        /\ states[i].messages[X].verb = "shift"
        /\ states[i].messages[X] = states[j].messages[X]
        /\ Len(states[states[i].messages[X].info + 1].marks)
             > states[states[i].messages[X].info + 1].core

\* ------------------------------------------------------------------------
\* C14

\* the analysis of check() is done
analysed == pc \in {"advance", "idle"}

\* every symbol of the right-hand side of rule r is a terminal or in F
allIn(G, r, F) ==
  \A i \in 1 .. Len(Rule(G, r).symbols) :
     isT(G, Rule(G, r).symbols[i]) \/ Rule(G, r).symbols[i] \in F

\* the non-terminals which derive a string of terminals: the least set F
\* which has the non-terminal of each rule with all non-terminals in F
RECURSIVE productive(_,_)
productive(G, F) ==
  LET more == {Rule(G, r).nt : r \in {q \in RuleIndexes(G) : allIn(G, q, F)}}
  IN IF more \subseteq F THEN F ELSE productive(G, F \cup more)

\* C14 as claimed: after the analysis of check() a rule is flagged finite
\* iff every symbol of its right-hand side is a terminal or a non-terminal
\* flagged finite, a non-terminal is flagged finite iff one of its rules is,
\* and the non-terminals not flagged, for which 'is not finite' is
\* reported, are those which derive no string of terminals.
C14_AsClaimed ==
  analysed =>
    /\ \A r \in RuleIndexes(grammar) :
         r \in sets.ruleFinite <=> allIn(grammar, r, sets.ntFinite)
    /\ \A n \in NTs(grammar) :
         n \in sets.ntFinite <=> \E r \in sets.ruleFinite : Rule(grammar, r).nt = n
    /\ sets.ntFinite = productive(grammar, {})

\* ------------------------------------------------------------------------
\* C15

\* the non-terminals which derive the empty string: the least set F which
\* has the non-terminal of each rule with a right-hand side of
\* non-terminals in F only
RECURSIVE nullable(_,_)
nullable(G, F) ==
  LET more == {Rule(G, r).nt :
                 r \in {q \in RuleIndexes(G) :
                          \A i \in 1 .. Len(Rule(G, q).symbols) : Rule(G, q).symbols[i] \in F}}
  IN IF more \subseteq F THEN F ELSE nullable(G, F \cup more)

\* C15 as claimed: check() raises no exception, and after its analysis the
\* non-terminals with empty = true are those which derive the empty string.
C15_AsClaimed ==
  /\ pc # "threw"
  /\ analysed => sets.ntEmpty = nullable(grammar, {})

\* ------------------------------------------------------------------------
\* C16

\* first(beta) for a sequence of symbols beta, given the first sets F of the
\* non-terminals as pairs, and if beta derives the empty string
RECURSIVE firstOf(_,_,_)
firstOf(G, F, beta) ==
  IF beta = <<>> THEN {}
  ELSE IF isT(G, Head(beta)) THEN {Head(beta)}
  ELSE {p[2] : p \in {q \in F : q[1] = Head(beta)}}
       \cup (IF Head(beta) \in nullable(G, {}) THEN firstOf(G, F, Tail(beta)) ELSE {})

vanishes(G, beta) == \A i \in 1 .. Len(beta) : beta[i] \in nullable(G, {})

\* the least first sets, as pairs of non-terminal and terminal
RECURSIVE leastFirst(_,_)
leastFirst(G, F) ==
  LET more == UNION {{Rule(G, r).nt} \X firstOf(G, F, Rule(G, r).symbols) :
                       r \in RuleIndexes(G)}
  IN IF more \subseteq F THEN F ELSE leastFirst(G, F \cup more)

\* what the rules require of follow sets W, given as pairs: for a rule
\* A: alpha X beta the pairs of X with first(beta) and, if beta derives the
\* empty string, with follow(A)
required(G, W) ==
  UNION {LET syms == Rule(G, r).symbols
             beta == SubSeq(syms, p[2] + 1, Len(syms))
         IN IF p[2] > Len(syms) \/ ~isNT(G, syms[p[2]]) THEN {}
            ELSE {syms[p[2]]}
                 \X (firstOf(G, leastFirst(G, {}), beta)
                      \cup (IF vanishes(G, beta)
                            THEN {q[2] : q \in {w \in W : w[1] = Rule(G, r).nt}}
                            ELSE {})) :
         r \in RuleIndexes(G), p \in {0} \X (1 .. MaxRhs)}

RECURSIVE leastFollow(_,_)
leastFollow(G, W) ==
  IF required(G, W) \subseteq W THEN W ELSE leastFollow(G, W \cup required(G, W))

\* C16: after the analysis of check() the follow sets are the least sets
\* such that for every rule A: alpha X beta follow(X) contains first(beta)
\* and, if beta derives the empty string, follow(A); follow(start) has $eof.
C16_Follow ==
  analysed =>
    /\ \A n \in NTs(grammar) :
         sets.ntFollow[n] = {w[2] : w \in {q \in leastFollow(grammar, {}) : q[1] = n}}
    /\ eof \in sets.ntFollow[grammar.start]

\* the follow set of a non-terminal has a terminal which only a second
\* pass over the rules can add, and a terminal passed over an empty
\* non-terminal
C16_Witness ==
  /\ analysed
  /\ \E n \in NTs(grammar) :
        sets.ntFollow[n] #
          followLoop_once(grammar, sets,
                          [ntFollow |-> [k \in NTs(grammar) |-> {}], changed |-> FALSE]).ntFollow[n]
  /\ sets.ntEmpty # {}

\* ------------------------------------------------------------------------
\* C17

\* the names with which a node, a sequence, a list of alternatives can begin:
\* the name of a sequence's first node and, as long as the nodes are
\* optional, of the next one
RECURSIVE leadNode(_), leadSeq(_), leadAlt(_)
leadNode(node) ==
  IF isTerminal(node) THEN {} ELSE IF isNode(node) THEN {node[2]} ELSE leadAlt(node[2])
leadSeq(nodes) ==
  IF nodes = <<>> THEN {}
  ELSE leadNode(Head(nodes)) \cup (IF isOpt(Head(nodes)) THEN leadSeq(Tail(nodes)) ELSE {})
leadAlt(seqs) == UNION {leadSeq(seqs[i]) : i \in 1 .. Len(seqs)}

\* the names with which the rules for names can begin, and so on
RECURSIVE begins(_,_)
begins(E, names) ==
  LET more == UNION {leadAlt(E.rules[i].seqs) :
                       i \in {k \in 1 .. Len(E.rules) : E.rules[k].nt \in names}}
  IN IF more \subseteq names THEN names ELSE begins(E, names \cup more)

\* a rule can begin with itself
selfBegins(E) ==
  \E i \in 1 .. Len(E.rules) : E.rules[i].nt \in begins(E, leadAlt(E.rules[i].seqs))

\* no precedences, and every non-terminal has exactly one rule
proper(E) ==
  /\ E.levels = <<>>
  /\ \A name \in ebnfNts(E) :
       Cardinality({i \in 1 .. Len(E.rules) : E.rules[i].nt = name}) = 1

disjointAlts(node) ==
  \A i, j \in 1 .. Len(node.alts) : i # j => node.alts[i] \cap node.alts[j] = {}

\* C18 as claimed: if check() returns no error the expect sets of the
\* alternatives of every rule, [ ] and { } are pairwise disjoint, and the
\* expect set of every [ ] and { } is disjoint from its follow set.
C18_AsClaimed ==
  lookahead.called = "check" /\ lookahead.returned = "" /\ ~lookahead.threw =>
    \A node \in tree(grammar.ebnf) :
       /\ disjointAlts(node)
       /\ node.kind \in {"opt", "some"} => node.expect \cap node.follow = {}

\* ------------------------------------------------------------------------
\* C19

\* a non-terminal without a rule, a non-terminal with more than one rule
undefinedNT(E) == ebnfNts(E) \ defined(E) # {}
duplicateNT(E) ==
  \E i, j \in 1 .. Len(E.rules) : i # j /\ E.rules[i].nt = E.rules[j].nt

\* C19 as claimed: for a grammar with a non-terminal without a rule or with
\* more than one rule expect() returns an error and computes no sets.
C19_AsClaimed ==
  lookahead.called = "expect"
  /\ (undefinedNT(grammar.ebnf) \/ duplicateNT(grammar.ebnf)) =>
    ~lookahead.threw /\ lookahead.returned # "" /\ lookahead.sets = "none"

\* ------------------------------------------------------------------------
\* C20

\* the names of the terminals of the tuples of an input
RECURSIVE terminalsOf(_)
terminalsOf(str) ==
  IF str = <<>> THEN <<>>
  ELSE IF Head(str).t = -1 THEN terminalsOf(Tail(str))
  ELSE <<terminalName(grammar, Head(str).t)>> \o terminalsOf(Tail(str))

\* what a node, a sequence, a list of alternatives can leave of one of the
\* strings in W: the strings which remain once a string which the node
\* derives is taken from the front
RECURSIVE restsNode(_,_,_), restsSeq(_,_,_), restsAlt(_,_,_), restsSome(_,_,_)
restsNode(E, node, W) ==
  IF W = {} THEN {}
  ELSE IF isTerminal(node) THEN {Tail(w) : w \in {v \in W : v # <<>> /\ Head(v) = node[2]}}
  ELSE IF isNode(node) THEN restsAlt(E, ebnfRule(E, node[2]).seqs, W)
  ELSE IF isOpt(node) THEN W \cup restsAlt(E, node[2], W)
  ELSE restsSome(E, node[2], restsAlt(E, node[2], W))
restsSeq(E, nodes, W) ==
  IF nodes = <<>> THEN W ELSE restsSeq(E, Tail(nodes), restsNode(E, Head(nodes), W))
restsAlt(E, seqs, W) == UNION {restsSeq(E, seqs[i], W) : i \in 1 .. Len(seqs)}
restsSome(E, seqs, W) ==
  IF restsAlt(E, seqs, W) \subseteq W THEN W
  ELSE restsSome(E, seqs, W \cup restsAlt(E, seqs, W))

\* the start rule derives the string of terminals
sentence(E, w) == <<>> \in restsAlt(E, E.rules[1].seqs, {w})

\* the recursive descent parser has parsed
parsedLL == ll.outcome # "" /\ ll.cause # "requires expect()"

\* C20: parse() of the recursive descent parser returns a result iff the
\* start rule is recognized and the index is behind the last tuple of the
\* input; if the start rule is recognized and a tuple remains 'too much
\* input' is thrown; a result is returned only for a string which the start
\* rule derives, and for a grammar which passes check(), without actions,
\* for every such string: nothing is returned for an input which ends early.
C20_Consumes ==
  parsedLL =>
    /\ ll.outcome = "result" <=> ll.done /\ ll.index = Len(ll.input)
    /\ ll.done /\ ll.index < Len(ll.input) =>
         /\ ll.outcome = "threw" /\ ll.cause = "too much input"
         /\ ll.input[ll.index + 1].t # -1
    /\ ll.outcome = "result" => sentence(grammar.ebnf, terminalsOf(ll.input))
    /\ llChecked /\ ~hasActions(ll.actions)
       /\ sentence(grammar.ebnf, terminalsOf(ll.input)) => ll.outcome = "result"

\* the start rule is recognized and a terminal remains
C20_Witness ==
  /\ parsedLL
  /\ ll.done /\ ll.index < Len(ll.input)
  /\ ll.cause = "too much input"

\* ------------------------------------------------------------------------
\* C21

\* recognition has failed because the lookahead matches no alternative or
\* no element of a sequence
mismatch ==
  /\ parsedLL /\ ll.outcome = "threw"
  /\ ll.cause \in {"in sequence, expects", "assertion error: Alt parse()"}

\* C21 as claimed: the diagnostic of a recognition which fails on the
\* lookahead names the current tuple and lists the rules which were
\* active at the point of the failure.
C21_AsClaimed ==
  mismatch => ll.active = ll.failedIn /\ ll.failedIn # <<>>

\* ------------------------------------------------------------------------
\* C22

\* C22 as claimed: parse() of the recursive descent parser for an input
\* without tuples, an empty string or ignored characters only, returns no
\* result and fails with what the start rule expects.
C22_AsClaimed ==
  parsedLL /\ ll.input = <<>> => ll.outcome = "threw" /\ ll.cause = "expects"

\* ------------------------------------------------------------------------
\* C23

\* the strings of a sequence of tuples, one after the other
RECURSIVE joined(_)
joined(ts) == IF ts = <<>> THEN <<>> ELSE Head(ts).value \o joined(Tail(ts))

\* the tuples among the pieces
tuplesOf(pieces) == SelectSeq(pieces, LAMBDA piece : piece.t # "skip")

\* the characters of a string which no pattern of the scanner can take:
\* none of them is where a pattern matches
unmatched(S, str, from) ==
  \A i \in 0 .. Len(str) - 1 : groupAt(S.patterns, S.input, from + i) = 0

\* where piece k starts in the input
startOf(pieces, k) == Len(joined(SubSeq(pieces, 1, k - 1)))

\* C23: when scan() has returned, the values of the tuples with what skip
\* has matched in between are the input; the tuples returned are the ones in
\* between; a tuple with terminal null is not empty, no pattern matches at
\* any of its characters, and no tuple with terminal null is next to it.
C23_RoundTrip ==
  scanner.pc = "done" =>
    /\ joined(scanner.pieces) = scanner.input
    /\ tuplesOf(scanner.pieces) = scanner.result
    /\ \A k \in 1 .. Len(scanner.pieces) :
         scanner.pieces[k].t = "null" =>
           /\ scanner.pieces[k].value # <<>>
           /\ unmatched(scanner, scanner.pieces[k].value, startOf(scanner.pieces, k))
           /\ k < Len(scanner.pieces) => scanner.pieces[k + 1].t # "null"
    /\ \A k \in 1 .. Len(scanner.pieces) :
         scanner.pieces[k].t # "null" =>
           groupAt(scanner.patterns, scanner.input, startOf(scanner.pieces, k)) # 0

\* scan() has returned tuples for illegal characters at the front, in
\* between and at the end, and has skipped something
C23_Witness ==
  /\ scanner.pc = "done"
  /\ Len(scanner.pieces) = MaxText
  /\ scanner.pieces[1].t = "null"
  /\ scanner.pieces[Len(scanner.pieces)].t = "null"
  /\ \E k \in 1 .. Len(scanner.pieces) : scanner.pieces[k].t = "skip"

\* ------------------------------------------------------------------------
\* C24

\* the line of piece k: one more than the \n before it in the input
lineOf(S, k) == 1 + nl(SubSeq(S.input, 1, startOf(S.pieces, k)))

\* the line number of every tuple is the line where it starts
linesRight(S) ==
  \A k \in 1 .. Len(S.pieces) :
     S.pieces[k].t # "skip" => S.pieces[k].lineno = lineOf(S, k)

\* skip matches all of the input
ignoredOnly(S) == runLen(S.input, 0, S.patterns[1].chars) = Len(S.input)

\* C24 as claimed: the last tuple which scan() returns has the terminal
\* $eof, for an input of ignored characters it is the only one, and the
\* line number of every tuple is the line where it starts.
C24_AsClaimed ==
  scanner.pc = "done" =>
    /\ scanner.result # <<>>
    /\ scanner.result[Len(scanner.result)].t = "$eof"
    /\ ignoredOnly(scanner) => Len(scanner.result) = 1
    /\ linesRight(scanner)

\* C24: scan() returns no tuple with the terminal $eof, for an input of
\* ignored characters it returns no tuple at all, and the line number of
\* every tuple is one more than the number of \n before it in the input.
C24_Lines ==
  scanner.pc = "done" =>
    /\ \A k \in 1 .. Len(scanner.result) : scanner.result[k].t # "$eof"
    /\ ignoredOnly(scanner) => scanner.result = <<>>
    /\ linesRight(scanner)

\* scan() has returned a tuple for an illegal character in line 2 and a
\* tuple in line 3
C24_Witness ==
  /\ scanner.pc = "done"
  /\ \E j, k \in 1 .. Len(scanner.result) :
        /\ j < k
        /\ scanner.result[j].t = "null" /\ scanner.result[j].lineno = 2
        /\ scanner.result[k].lineno = 3

\* ------------------------------------------------------------------------
\* C25

\* the last call was method(name) and name was in the inventory `names`
clashed(F, method, names) ==
  /\ F.call # <<>>
  /\ F.call[1] = method
  /\ has(names, F.call[2])

\* the last call was method(name) and name was in the method's inventory
known(F, method, own) ==
  /\ F.call # <<>>
  /\ F.call[1] = method
  /\ has(own, F.call[2])

\* C25 as claimed: no name is registered both as a token and as a
\* non-terminal; a factory call whose name exists in the other name space
\* registers no symbol, and a call with a known name changes no inventory.
C25_AsClaimed ==
  /\ \A n \in Names : ~(has(factory.tokens, n) /\ has(factory.nts, n))
  /\ clashed(factory, "token", factory.was.nts) \/ clashed(factory, "nt", factory.was.tokens)
       => inventory(factory) = factory.was
  /\ \/ known(factory, "lit", factory.was.lits)
     \/ known(factory, "token", factory.was.tokens)
     \/ known(factory, "nt", factory.was.nts)
       => inventory(factory) = factory.was

\* ------------------------------------------------------------------------
\* C26

\* the positions in levels of the groups which list terminal t
groupsOf(F, t) == {g \in 1 .. Len(F.levels) : has(F.levels[g].terminals, t)}

\* terminal t is in one group, at its level and with its associativity
grouped(F, t) ==
  \E g \in 1 .. Len(F.levels) :
     /\ groupsOf(F, t) = {g}
     /\ F.prec[t].level = g - 1
     /\ F.prec[t].assoc = F.levels[g].assoc

\* the last call was precedence() with a terminal that had a precedence
duplicate(F) ==
  /\ F.call # <<>>
  /\ F.call[1] = "precedence"
  /\ \E i \in 2 .. Len(F.call) : F.was.prec[F.call[i]].assoc # ""

\* C26 as claimed: every terminal with a precedence is listed in exactly
\* one group of levels, at the position of its level index and with its
\* associativity, and a precedence() call which names a terminal that has
\* a precedence already is rejected and changes nothing.
C26_AsClaimed ==
  /\ \A t \in Names \cup LitNames : factory.prec[t].assoc # "" => grouped(factory, t)
  /\ duplicate(factory) => factory.returned = "threw" /\ inventory(factory) = factory.was

\* ------------------------------------------------------------------------
\* C27

Min(a, b) == IF a < b THEN a ELSE b

\* the memory object as the loop of the last call has found it
begun(M) ==
  IF Len(M.budgets) = 1
  THEN [M EXCEPT !.memory = [i \in 1 .. M.size |-> numeric(0)], !.pc = 0]
  ELSE [M EXCEPT !.memory = M.was.memory, !.pc = M.was.pc]

\* the number of instructions executed from M on until the program counter
\* reaches the end of the code, and 1 + fuel if there are more than fuel
RECURSIVE toEnd(_, _)
toEnd(M, fuel) ==
  IF M.pc >= Len(M.code) THEN 0
  ELSE IF fuel = 0 THEN 1
  ELSE 1 + toEnd(ins([M EXCEPT !.pc = @ + 1], M.code[M.pc + 1]), fuel - 1)

\* the budget of the last call
budget(M) == M.budgets[Len(M.budgets)]

\* C27: a call with a positive step budget n executes min(n, k)
\* instructions, k the number of instructions executed until the program
\* counter reaches the end of the code, and returns with continue = true
\* iff the program counter is inside the code; for the example, steps = 2
\* returns the memory [3, 4] with continue = true, and a run without steps
\* prints 7 and returns with continue = false.
C27_Budget ==
  machine.at = "returned" =>
    /\ budget(machine) \in Budgets =>
         machine.executed = Min(budget(machine)[2], toEnd(begun(machine), budget(machine)[2]))
    /\ machine.continue = (machine.pc < Len(machine.code))
    /\ machine.code = Example /\ machine.size = 0 /\ machine.budgets = <<numeric(2)>>
         => machine.memory = <<numeric(3), numeric(4)>> /\ machine.continue
    /\ machine.code = Example /\ machine.budgets = <<undefined>>
         => machine.out = <<numeric(7)>> /\ ~machine.continue

\* the example has returned from a start with steps = 2
C27_Witness ==
  /\ machine.at = "returned"
  /\ machine.code = Example
  /\ machine.size = 0
  /\ machine.budgets = <<numeric(2)>>
  /\ machine.executed = 2
  /\ machine.continue

\* ------------------------------------------------------------------------
\* C28

\* memory, program counter and continue flag are the same
same(M, N) == M.memory = N.memory /\ M.pc = N.pc /\ M.continue = N.continue

\* the executable was started with n steps and resumed with m steps
resumed(M) ==
  /\ M.at = "returned"
  /\ Len(M.budgets) = 2
  /\ M.budgets[1] \in Budgets
  /\ M.budgets[2] \in Budgets

\* C28: a start with budget n and a resumption with budget m leave memory,
\* program counter and continue flag as a single start with budget n + m
\* does, and resuming a memory with continue = false executes nothing.
C28_Resumed ==
  /\ resumed(machine) =>
       same(machine, StackMachine(Machine11(machine.code, machine.size), TRUE,
                                  numeric(machine.budgets[1][2] + machine.budgets[2][2])))
  /\ machine.at = "returned" /\ Len(machine.budgets) > 1 /\ ~machine.was.continue =>
       /\ machine.executed = 0
       /\ machine.memory = machine.was.memory
       /\ machine.pc = machine.was.pc
       /\ ~machine.continue

\* a resumption which has executed instructions
C28_Witness ==
  /\ resumed(machine)
  /\ machine.was.continue
  /\ machine.executed > 0
  /\ machine.memory # machine.was.memory

\* ------------------------------------------------------------------------
\* C29

\* the non-terminals with the reserved prefix, and those of the user
fresh(G)   == {n \in NTs(G) : ntName(G, n) \in UniqNames}
ofUser(G)  == NTs(G) \ (fresh(G) \cup {acceptNT(G)})

\* the right-hand sides of the rules of a non-terminal in creation order
rhs(G, n) == [i \in 1 .. Len(ntRules(G, n)) |-> Rule(G, ntRules(G, n)[i]).symbols]

\* U: ; and U: S_i
isOptNT(G, n) == n \in fresh(G) /\ rhs(G, n) # <<>> /\ rhs(G, n)[1] = <<>>

\* U2: U1, U2: U2 U1, and with error mode U2: $error, U2: U2 $error
listOf(G, n, n1) ==
  rhs(G, n) = << <<n1>>, <<n, n1>> >> \o
              (IF G.config.error THEN << <<error(G)>>, <<n, error(G)>> >> ELSE <<>>)
isSomeNT(G, n) == n \in fresh(G) /\ \E n1 \in fresh(G) \ {n} : listOf(G, n, n1)
elementNT(G, n) == CHOOSE n1 \in fresh(G) \ {n} : listOf(G, n, n1)

\* the EBNF node which a symbol of the BNF grammar stands for
RECURSIVE raised(_, _), raisedAlt(_, _)
raised(G, sym) ==
  IF sym < nLits(G) THEN Lit(G.lits[sym + 1])
  ELSE IF isT(G, sym) THEN Token(G.tokens[sym - nLits(G) + 1])
  ELSE IF sym \notin fresh(G) THEN NT(ntName(G, sym))
  ELSE IF isOptNT(G, sym) THEN Opt(raisedAlt(G, Tail(rhs(G, sym))))
  ELSE IF isSomeNT(G, sym) THEN Some(raisedAlt(G, rhs(G, elementNT(G, sym))))
  ELSE <<"neither", ntName(G, sym)>>
raisedAlt(G, list) ==
  [i \in 1 .. Len(list) |-> [k \in 1 .. Len(list[i]) |-> raised(G, list[i][k])]]

\* the alternatives of all rules for a name, rule i and beyond
RECURSIVE seqsOf(_, _, _)
seqsOf(E, name, i) ==
  IF i > Len(E.rules) THEN <<>>
  ELSE (IF E.rules[i].nt = name THEN E.rules[i].seqs ELSE <<>>) \o seqsOf(E, name, i + 1)

\* the number of [ ] (opt = TRUE) or { } in nodes
RECURSIVE countNode(_, _), countSeq(_, _, _), countAlt(_, _, _)
countNode(node, opt) ==
  IF isTerminal(node) \/ isNode(node) THEN 0
  ELSE (IF isOpt(node) = opt THEN 1 ELSE 0) + countAlt(node[2], opt, 1)
countSeq(nodes, opt, i) ==
  IF i > Len(nodes) THEN 0 ELSE countNode(nodes[i], opt) + countSeq(nodes, opt, i + 1)
countAlt(seqs, opt, i) ==
  IF i > Len(seqs) THEN 0 ELSE countSeq(seqs[i], opt, 1) + countAlt(seqs, opt, i + 1)
RECURSIVE countRules(_, _, _)
countRules(E, opt, i) ==
  IF i > Len(E.rules) THEN 0
  ELSE countAlt(E.rules[i].seqs, opt, 1) + countRules(E, opt, i + 1)

\* fromEBNF() has created the grammar
isLowered == isEBNF(grammar) /\ nNts(grammar) > 1

\* C29: fromEBNF() creates one non-terminal U with U: ; and U: S_i for
\* each [ ], two non-terminals U1, U2 with U1: S_i, U2: U1, U2: U2 U1
\* (and U2: $error, U2: U2 $error in error mode) for each { }, and nothing
\* else but the rules of the user with U or U2 in place of the construct;
\* the new non-terminals have the reserved prefix, all names are distinct,
\* and start is the non-terminal of the first rule.
C29_Lowering ==
  isLowered =>
    LET G == grammar
        E == grammar.ebnf
    IN /\ \A n \in ofUser(G) : raisedAlt(G, rhs(G, n)) = seqsOf(E, ntName(G, n), 1)
       /\ {ntName(G, n) : n \in ofUser(G)} = ebnfNts(E)
       /\ Cardinality(fresh(G)) = countRules(E, TRUE, 1) + 2 * countRules(E, FALSE, 1)
       /\ \A n \in fresh(G) :
            \/ isOptNT(G, n)
            \/ isSomeNT(G, n)
            \/ \E n2 \in fresh(G) : isSomeNT(G, n2) /\ elementNT(G, n2) = n
       /\ \A i, j \in 1 .. nNts(G) : G.nts[i] = G.nts[j] => i = j
       /\ ebnfNts(E) \cap UniqNames = {}
       /\ isNT(G, G.start) /\ ntName(G, G.start) = E.rules[1].nt

\* a grammar with [ ] and { } was lowered in error mode
C29_Witness ==
  /\ isLowered
  /\ grammar.config.error
  /\ countRules(grammar.ebnf, TRUE, 1) > 0
  /\ countRules(grammar.ebnf, FALSE, 1) > 0
  /\ Cardinality(fresh(grammar)) = 3

\* ------------------------------------------------------------------------
\* C30

\* a recognition of this parser has ended
ended == pc = "idle" /\ outcome \notin {"", "true"}

\* C30 as claimed: the count at the end of a recognition is the number of
\* errors raised during the recognition if no other recognition on the
\* grammar was started in between, and it is lower if one was.
C30_AsClaimed ==
  ended =>
    /\ ~other.started => errors = ownErrors
    /\ other.started => errors < ownErrors

\* C30: parse() of a parser which is not parsing sets the counter to 0 and
\* parse() to continue leaves it as it is; between the calls and at the
\* end of a recognition the counter is the number of errors which either
\* parser has reported since the last of these resets, which is the
\* number raised in the recognition if the other parser was not used.
C30_Counter ==
  /\ [](pc = "idle" /\ outcome # "" =>
          /\ errors = other.e + ownErrors - other.since
          /\ other.calls = 0 => errors = ownErrors)
  /\ [][pc = "idle" /\ pc' = "loop" => errors' = IF parsing THEN errors ELSE 0]_vars

\* a recognition has ended with errors of its own and with a count which
\* is another number, the other parser having started a recognition
C30_Witness ==
  /\ ended
  /\ other.started
  /\ ownErrors > 0
  /\ errors # ownErrors

\* ------------------------------------------------------------------------
\* C31

\* C31 as claimed: assigning another value to mode leaves every flag false
\* and g and run null, and assigning the current value changes nothing.
C31_AsClaimed ==
  model.call = "mode" =>
    IF model.same THEN ~model.changed
    ELSE /\ \A f \in Flags : ~model.flags[f]
         /\ model.g = "null"
         /\ model.run = "null"

\* ------------------------------------------------------------------------
\* C32

\* C32 as claimed: without a stack machine in run, doStep(n) has no effect
\* and raises no error.
C32_AsClaimed ==
  model.call = "doStep" /\ model.had # "run(memory, steps)" =>
    ~model.changed /\ ~model.threw

\* ------------------------------------------------------------------------
\* C33

\* a scanner was created from the symbols of a factory
built == "lits" \in DOMAIN scanner /\ scanner.pc # "threw"

\* the groups of the pattern for tokens and for literals
tokenGroups   == SelectSeq(Tail(scanner.patterns), LAMBDA q : q.kind = "run")
literalGroups == SelectSeq(scanner.patterns, LAMBDA q : q.kind = "lit")

\* the pattern is skip, the used tokens and then the used literals which
\* no used token covers
rightGroups ==
  /\ scanner.patterns = <<Run("skip", {" "})>> \o tokenGroups \o literalGroups
  /\ {q.name : q \in {tokenGroups[i] : i \in 1 .. Len(tokenGroups)}}
       = {t.name : t \in {x \in {scanner.tokens[i] : i \in 1 .. Len(scanner.tokens)} :
                            x.used /\ x.name # <<>>}}
  /\ {q.value : q \in {literalGroups[i] : i \in 1 .. Len(literalGroups)}}
       = {l.value : l \in {x \in {scanner.lits[i] : i \in 1 .. Len(scanner.lits)} :
                             /\ x.used /\ x.value # <<>>
                             /\ ~\E i \in 1 .. Len(tokenGroups) : covers(tokenGroups[i], x)}}
  /\ \A i, j \in 1 .. Len(tokenGroups) : i < j => less(tokenGroups[i].name, tokenGroups[j].name)

\* C33 as claimed: the literals of the pattern are in the order of
\* decreasing length, behind the tokens in the order of ascending names,
\* and without the literals which a token screens.
C33_AsClaimed ==
  built =>
    /\ rightGroups
    /\ \A i, j \in 1 .. Len(literalGroups) :
         i < j => Len(literalGroups[i].value) >= Len(literalGroups[j].value)

\* ------------------------------------------------------------------------
\* C34

\* check() has set follow for a grammar which expect() accepts
followed ==
  /\ pc = "ebnf"
  /\ lookahead.called = "check"
  /\ expectError(grammar.ebnf) = ""

\* the sets of the nodes below a path are what the sets above them pass on
RECURSIVE closedAlt(_,_,_,_,_), closedSeq(_,_,_,_,_,_)
closedAlt(E, F, path, seqs, some) ==
  LET passed == followAt(F, path) \cup (IF some THEN deepAlt(E, seqs) ELSE {})
  IN \A i \in 1 .. Len(seqs) :
       /\ Append(path, i) \in F.made
       /\ followAt(F, Append(path, i)) = passed
       /\ closedSeq(E, F, Append(path, i), seqs[i], Len(seqs[i]), passed)
closedSeq(E, F, path, nodes, k, right) ==
  \/ k = 0
  \/ /\ IF isNode(nodes[k])
        THEN <<nodes[k][2]>> \in F.made /\ right \subseteq followAt(F, <<nodes[k][2]>>)
        ELSE /\ Append(path, k) \in F.made
             /\ followAt(F, Append(path, k)) = right
             /\ isTerminal(nodes[k])
                  \/ closedAlt(E, F, Append(path, k), nodes[k][2], ~isOpt(nodes[k]))
     /\ closedSeq(E, F, path, nodes, k - 1,
                  deepNode(E, nodes[k]) \cup (IF isOpt(nodes[k]) THEN right ELSE {}))

\* C34: for a grammar which expect() accepts the setters come to an end:
\* a rule is set once and then only with an increment which adds to its
\* set, so no more often than once and once per terminal in its set; in
\* the end the set of each node has what its sequence, [ ] or { } passes
\* on, and the sets of the rules are those which check() goes on with.
C34_Closed ==
  followed =>
    LET E == grammar.ebnf
        F == setFollow(E)
    IN /\ \A name \in defined(E) :
            /\ F.entered[name] >= 1
            /\ F.entered[name] <= 1 + Cardinality(followAt(F, <<name>>))
            /\ closedAlt(E, F, <<name>>, ebnfRule(E, name).seqs, FALSE)
            /\ followAt(F, <<name>>) = ebnfFollow(E)[name]

\* a rule which refers to itself through another rule is set again with
\* an increment
C34_Witness ==
  /\ followed
  /\ Len(grammar.ebnf.rules) = 2
  /\ \A i \in 1 .. 2 : \E name \in namesAlt(grammar.ebnf.rules[i].seqs) :
        ruleIndex(grammar.ebnf, name) = 3 - i
  /\ \E name \in defined(grammar.ebnf) : setFollow(grammar.ebnf).entered[name] > 1

\* ------------------------------------------------------------------------
\* C35

\* a state which has been advanced has no symbol left without a message,
\* a state which has not been has nothing but such symbols
advanced(S) == \A X \in DOMAIN S.messages : S.messages[X] # null
untouched(S) == \A X \in DOMAIN S.messages : S.messages[X] = null

\* in the loop and behind it no two states have the same core, the states
\* before s have been advanced and the others have not
oncePerCore ==
  pc \in {"advance", "idle"} =>
    /\ s <= Len(states)
    /\ pc = "idle" => s = Len(states)
    /\ \A i, j \in 1 .. Len(states) : coreOf(states[i]) = coreOf(states[j]) => i = j
    /\ \A i \in 1 .. Len(states) :
         IF i <= s THEN advanced(states[i]) ELSE untouched(states[i])

\* a round of the loop advances states[s], leaves the cores and the order
\* of the states alone and the states before s as they are
oneRound ==
  pc = "advance" /\ s' # s =>
    /\ s' = s + 1
    /\ Len(states') >= Len(states)
    /\ \A i \in 1 .. Len(states) : coreOf(states'[i]) = coreOf(states[i])
    /\ \A i \in 1 .. s : states'[i] = states[i]

\* C35: check() comes to an end for each grammar: the loop over the states
\* has one state for a core, advances the states in their order, each one
\* once, and ends when s has reached the end of the list.
C35_Terminates ==
  /\ []oncePerCore
  /\ [][oneRound]_vars
  /\ (pc = "new") ~> (pc \in {"idle", "threw"})

\* the loop is at a state which was appended while it ran, and a state
\* before it has an entry for a state which was there already
C35_Witness ==
  /\ pc = "advance"
  /\ s >= 2 /\ s < Len(states)
  /\ \E i \in 1 .. s : \E X \in DOMAIN states[i].messages :
       /\ states[i].messages[X].verb \in {"shift", "goto"}
       /\ states[i].messages[X].info < i

\* ------------------------------------------------------------------------
\* C36

\* C36 as claimed: once a call of parse() has returned a result or thrown
\* anything but true, the parser is not parsing.
C36_AsClaimed ==
  pc = "idle" /\ outcome \notin {"", "true"} => ~parsing

\* ------------------------------------------------------------------------
\* C37

\* a parser which is not parsing is called without actions
plainStart ==
  /\ ~parsing
  /\ \/ \E a \in Chunks : Parse([k |-> "array", a |-> a], FALSE, noActions)
     \/ Parse([k |-> "null", a |-> <<>>], FALSE, noActions)

\* C37 as claimed: a recognition which parse() starts without actions has
\* no actions object, whatever the parser was used with before.
C37_AsClaimed == [][plainStart => ~hasActions(actions')]_vars

\* ------------------------------------------------------------------------
\* C38

\* parse() was called for a new recognition with an array which ends with
\* null and has no other null, and is at its loop
atStart ==
  /\ pc = "loop"
  /\ stack = <<0>> /\ log = <<>> /\ used = 0 /\ index = 0 /\ tuples = <<>>
  /\ current = nullTuple
  /\ values = IF building THEN <<List(<<>>)>> ELSE values
  /\ input.k = "array" /\ Len(input.a) >= 2
  /\ \A i \in 1 .. Len(input.a) : input.a[i] = nullTuple <=> i = Len(input.a)

\* the messages other than 'error', the outcome, the result and the number
\* of errors of a recognition
summary(R) ==
  [messages |-> SelectSeq(R.P.log, LAMBDA m : m.verb # "error"),
   outcome |-> R.P.threw, result |-> R.P.result, errors |-> R.P.errors]

\* no call for a chunk has asked for more from within recover()
between(R) == R.at = "loop"

\* a step of parse() leaves the end of the call where it was, and the last
\* step of a call is this end
atEnd(P) ==
  [outcome |-> P.threw, log |-> P.log, errors |-> P.errors, stack |-> P.stack,
   values |-> P.values, result |-> IF P.threw = "result" THEN P.result ELSE Null]

asSteps ==
  pc \in {"loop", "recover", "search"} =>
    atEnd(run(snapshot, pc).P)
      = IF pc' = "idle"
        THEN [outcome |-> outcome', log |-> log', errors |-> errors', stack |-> stack',
              values |-> values', result |-> result']
        ELSE atEnd(run(snapshot', pc').P)

\* C38 as claimed: the input in chunks gives the messages, the result and
\* the number of errors of the input as a whole, wherever the chunks end.
C38_AsClaimed ==
  atStart =>
    \A cuts \in SUBSET (1 .. Len(input.a) - 1) :
       summary(chunked(snapshot, input.a, cuts)) = summary(chunked(snapshot, input.a, {}))

\* C38: the input in chunks gives the messages, the result and the number
\* of errors of the input as a whole, errors in the input included, if no
\* chunk ends where recover() asks for the next tuple; the call with the
\* whole input ends as the steps of parse() end.
C38_Chunks ==
  /\ [](atStart =>
        \A cuts \in SUBSET (1 .. Len(input.a) - 1) :
           between(chunked(snapshot, input.a, cuts)) =>
             summary(chunked(snapshot, input.a, cuts)) = summary(chunked(snapshot, input.a, {})))
  /\ [][asSteps]_vars

\* an input with an error in two chunks, the first of which ends behind
\* the error once recover() is done
C38_Witness ==
  /\ atStart
  /\ \E k \in 1 .. Len(input.a) - 1 :
       LET R == chunked(snapshot, input.a, {k})
           F == run([snapshot EXCEPT !.input = [k |-> "array", a |-> SubSeq(input.a, 1, k)]], "loop")
       IN /\ between(R)
          /\ F.P.threw = "true" /\ F.P.errors > 0
          /\ R.P.threw = "result"

\* ------------------------------------------------------------------------
\* C39

\* C39: Exit leaves the frame pointer as it was before Entry and the
\* memory as it was below the arguments, with the content of the result
\* slot and the address behind the Call on top; Return takes the address
\* as pc and leaves the result on top.
C39_Frame ==
  /\ pc = "frames" /\ machine.at = "exited" =>
       /\ machine.fp = machine.left[1].fp
       /\ machine.memory = machine.left[1].below
                             \o <<machine.left[1].result, numeric(machine.left[1].ret)>>
       /\ Len(machine.frames) = Len(machine.calls) + 1
  /\ pc = "frames" /\ machine.at = "returned" =>
       /\ machine.pc = machine.left[1].ret
       /\ machine.fp = machine.left[1].fp
       /\ machine.memory = Append(machine.left[1].below, machine.left[1].result)

\* a function with a parameter and a local variable, the frame of which
\* is not where the frame of its caller is, has stored a result, left and
\* returned
C39_Witness ==
  /\ pc = "frames" /\ machine.at = "returned"
  /\ machine.left[1].parms = 1 /\ machine.left[1].size = 5
  /\ machine.left[1].result # numeric(0)
  /\ Len(machine.left[1].below) # machine.left[1].fp

====
